---- MODULE Spec2Model ----
(***************************************************************************)
(* Model of the constrained-decoding matcher of llguidance:                *)
(*   - the stack recognizer and the recognizer controller                  *)
(*     (controllers/aici_abi/src/recognizer.rs),                           *)
(*   - the matcher facade (parser/src/matcher.rs),                         *)
(*   - the token parser of the guidance controller                         *)
(*     (controllers/guidance_ctrl/src/lib.rs),                             *)
(*   - the suffix automaton, its regex and the chunkers                    *)
(*     (parser/src/substring.rs),                                          *)
(*   - the Python executor's parallel mask computation                     *)
(*     (python_ext/src/llmatcher.rs).                                      *)
(* Token ids are 1-based here (TLA+ sequences); the source's are 0-based.  *)
(***************************************************************************)
EXTENDS Integers, Sequences, FiniteSets, TLC

VARIABLES voc, sr, ares, m, mres, tp, cres, caps, sub, ck, ex, ffi

vars == <<voc, sr, ares, m, mres, tp, cres, caps, sub, ck, ex, ffi>>

\* The variables of each component: the recognizer controller, the matcher and
\* the guidance controller; sub is the run of substring(), ck the run of a
\* chunker, ex the Python executor with its matchers and the mask buffer, ffi
\* a handle of the C ABI with the memory its caller passes. A component that
\* is not part of a specification stays Absent.
recVars == <<sr, ares>>

matcherVars == <<m, mres>>

ctrlVars == <<tp, cres, caps>>

Absent == [tag |-> "none"]

\* ------------------------------------------------------------------ bounds

\* Bytes are 1..MaxByte.
MaxByte == 3
\* Longest batch of tokens handed to one call (mid_process, consume_tokens, ...).
MaxBatch == 2
\* Longest token history of a matcher.
MaxTokens == 2
\* Budget of force_bytes.
MaxForce == 3
\* Largest rollback asked for.
MaxRollback == 2

\* `vec![rec.initial(); 300]`
StackCap == 300

Bytes == 1..MaxByte

None == -1

\* A recognizer that panics inside try_append (the injected fault of scenario S6).
Poison == -2

\* ------------------------------------------------------------- vocabulary

Tok(bs) == [bytes |-> bs, special |-> FALSE]

\* The EOS entry: a special token, outside the byte trie.
EosEntry == [bytes |-> <<>>, special |-> TRUE]

\* "4", "42", "a", "24a": a token that is a proper prefix of another.
VocabA == <<EosEntry, Tok(<<1>>), Tok(<<1, 2>>), Tok(<<3>>), Tok(<<2, 1, 3>>)>>

\* A zero-length token and a chain of prefixes.
VocabB == <<EosEntry, Tok(<<>>), Tok(<<1>>), Tok(<<1, 2>>), Tok(<<1, 2, 3>>),
            Tok(<<2>>), Tok(<<2, 3>>)>>

\* Repeated bytes.
VocabC == <<EosEntry, Tok(<<2>>), Tok(<<2, 2>>), Tok(<<1, 1>>), Tok(<<3, 1>>)>>

Vocabularies == {VocabA, VocabB, VocabC}

\* The vocabularies of the matchers: single bytes, and a two-byte token.
VocabD == <<EosEntry, Tok(<<1>>), Tok(<<2>>), Tok(<<3>>)>>

VocabE == <<EosEntry, Tok(<<1, 2>>), Tok(<<1>>), Tok(<<3>>)>>

MatcherVocabularies == {VocabD, VocabE}

eos_token == 1

TokenIds(v) == 1..Len(v)

token(v, t) == v[t].bytes

IsSpecial(v, t) == v[t].special

IsPrefix(p, s) == Len(p) <= Len(s) /\ SubSeq(s, 1, Len(p)) = p

\* The trie has a node for every prefix of a (non-special) token.
HasNode(v, node) == \E t \in TokenIds(v) : ~IsSpecial(v, t) /\ IsPrefix(node, token(v, t))

\* The token a node terminates, or None.
NodeToken(v, node) ==
    IF \E t \in TokenIds(v) : ~IsSpecial(v, t) /\ token(v, t) = node
    THEN CHOOSE t \in TokenIds(v) : ~IsSpecial(v, t) /\ token(v, t) = node
    ELSE None

\* ---------------------------------------------------- functional recognizers

\* AnythingGoes: the unit state is 0.
AnythingGoes_initial == 0

AnythingGoes_try_append(state, byte) == state

AnythingGoes_special_allowed(state, tok) == TRUE

\* Three digits (bytes 1 and 2 are digits): the state counts them.
Digits3_try_append(state, byte) ==
    IF state < 3 /\ byte \in {1, 2} THEN state + 1 ELSE None

\* The literal 1 2 3.
Literal_try_append(state, byte) ==
    IF state < 3 /\ byte = state + 1 THEN state + 1 ELSE None

\* (1 2)*
Star_try_append(state, byte) ==
    CASE state = 0 /\ byte = 1 -> 1
      [] state = 1 /\ byte = 2 -> 0
      [] OTHER -> None

\* A grammar with a dead end (state 2 accepts nothing and is not accepting) and
\* a scan that panics (byte 3 in state 1).
Trap_try_append(state, byte) ==
    CASE state = 0 /\ byte = 1 -> 1
      [] state = 0 /\ byte = 2 -> 2
      [] state = 1 /\ byte = 2 -> 0
      [] state = 1 /\ byte = 3 -> Poison
      [] OTHER -> None

\* The literal 1 2 1: its last byte starts a longer token in some vocabularies.
Aba_try_append(state, byte) ==
    CASE state = 0 /\ byte = 1 -> 1
      [] state = 1 /\ byte = 2 -> 2
      [] state = 2 /\ byte = 1 -> 3
      [] OTHER -> None

\* Accepts every byte; the state is the sum of the bytes modulo 4.
Mod4_try_append(state, byte) == (state + byte) % 4

Grammars == {"anything", "digits3", "literal", "star", "trap"}

rec_initial(g) == IF g = "anything" THEN AnythingGoes_initial ELSE 0

rec_try_append(g, state, byte) ==
    CASE g = "anything" -> AnythingGoes_try_append(state, byte)
      [] g = "digits3" -> Digits3_try_append(state, byte)
      [] g = "literal" -> Literal_try_append(state, byte)
      [] g = "star" -> Star_try_append(state, byte)
      [] g = "aba" -> Aba_try_append(state, byte)
      [] g = "mod4" -> Mod4_try_append(state, byte)
      [] OTHER -> Trap_try_append(state, byte)

rec_special_allowed(g, state, tok) ==
    CASE g = "anything" -> AnythingGoes_special_allowed(state, tok)
      [] g = "digits3" -> state = 3
      [] g = "literal" -> state = 3
      [] g = "star" -> state = 0
      [] g = "aba" -> state = 3
      [] g = "mod4" -> state = 0
      [] OTHER -> state = 0

\* ---------------------------------------------------------- StackRecognizer
\* A record [rec, stack, stack_ptr, panic]; panic # "none" once an operation
\* has panicked (the recognizer is then left as the panic found it).
\* The stack has StackCap entries, all rec.initial() at first. The record keeps
\* the entries up to the highest index written; the entries above it still
\* hold rec.initial().

StackRecognizer_from(g) ==
    [rec |-> g, stack |-> [i \in 0..0 |-> rec_initial(g)],
     stack_ptr |-> 0, panic |-> "none"]

\* self.stack[i], for i < StackCap.
StackAt(r, i) == IF i \in DOMAIN r.stack THEN r.stack[i] ELSE rec_initial(r.rec)

\* self.stack[i] = state, for i < StackCap.
StackPut(r, i, state) ==
    LET high == Cardinality(DOMAIN r.stack) - 1 IN
    [j \in 0..(IF i > high THEN i ELSE high) |->
        IF j = i THEN state ELSE StackAt(r, j)]

Top(r) == StackAt(r, r.stack_ptr)

reset(r) == [r EXCEPT !.stack_ptr = 0, !.stack = StackPut(r, 0, rec_initial(r.rec))]

pop_bytes_forgets(r, num) == r

pop_bytes_one(r, num) ==
    IF num > r.stack_ptr THEN [r EXCEPT !.panic = "underflow"]
    ELSE [r EXCEPT !.stack_ptr = @ - (IF num > 0 THEN 1 ELSE 0)]

\* usize subtraction: going below zero panics (overflow check).
pop_bytes(r, num) ==
    IF num > r.stack_ptr THEN [r EXCEPT !.panic = "underflow"]
    ELSE [r EXCEPT !.stack_ptr = @ - num]

trie_finished(r) ==
    IF r.stack_ptr = 0 THEN r ELSE [r EXCEPT !.panic = "assert"]

collapse_in_place(r) == [r EXCEPT !.stack_ptr = 0]

collapse(r) ==
    [r EXCEPT !.stack = StackPut(r, 0, StackAt(r, r.stack_ptr)), !.stack_ptr = 0]

special_allowed_always(r, tok) == TRUE

special_allowed(r, tok) == rec_special_allowed(r.rec, StackAt(r, r.stack_ptr), tok)

\* Mutants of try_push_byte: the state written below the new top, and the old
\* top copied instead of the new state.
try_push_byte_below(r, byte) ==
    LET state == rec_try_append(r.rec, StackAt(r, r.stack_ptr), byte) IN
    IF state = Poison THEN [r |-> [r EXCEPT !.panic = "scan"], ok |-> FALSE]
    ELSE IF state # None
    THEN [r |-> [r EXCEPT !.stack = StackPut(r, r.stack_ptr, state), !.stack_ptr = @ + 1],
          ok |-> TRUE]
    ELSE [r |-> r, ok |-> FALSE]

try_push_byte_stale(r, byte) ==
    LET state == rec_try_append(r.rec, StackAt(r, r.stack_ptr), byte) IN
    IF state = Poison THEN [r |-> [r EXCEPT !.panic = "scan"], ok |-> FALSE]
    ELSE IF state # None
    THEN [r |-> [r EXCEPT !.stack = StackPut(r, r.stack_ptr + 1, StackAt(r, r.stack_ptr)),
                          !.stack_ptr = @ + 1],
          ok |-> TRUE]
    ELSE [r |-> r, ok |-> FALSE]

\* Returns [r, ok]. Indexing past the end of the stack panics, and so does a
\* try_append that panics.
try_push_byte(r, byte) ==
    LET state == rec_try_append(r.rec, StackAt(r, r.stack_ptr), byte) IN
    IF state = Poison THEN [r |-> [r EXCEPT !.panic = "scan"], ok |-> FALSE]
    ELSE IF state # None
    THEN IF r.stack_ptr + 1 >= StackCap
         THEN [r |-> [r EXCEPT !.stack_ptr = @ + 1, !.panic = "index"], ok |-> FALSE]
         ELSE [r |-> [r EXCEPT !.stack = StackPut(r, r.stack_ptr + 1, state),
                               !.stack_ptr = @ + 1],
               ok |-> TRUE]
    ELSE [r |-> r, ok |-> FALSE]

\* ------------------------------------------------------------------ TokTrie

\* push_byte: a rejected byte panics.
RECURSIVE push_bytes(_, _)
push_bytes(r, bs) ==
    IF bs = <<>> \/ r.panic # "none" THEN r
    ELSE LET pushed(p) ==
                 IF p.ok THEN push_bytes(p.r, Tail(bs))
                 ELSE IF p.r.panic # "none" THEN p.r
                 ELSE [r EXCEPT !.panic = "byte"]
         IN pushed(try_push_byte(r, Head(bs)))

append_token(v, r, t) ==
    LET appended(r1) == IF r1.panic # "none" THEN r1 ELSE collapse(r1)
    IN appended(push_bytes(r, token(v, t)))

RECURSIVE append_tokens(_, _, _)
append_tokens(v, r, ts) ==
    IF ts = <<>> \/ r.panic # "none" THEN r
    ELSE append_tokens(v, append_token(v, r, Head(ts)), Tail(ts))

\* The mask DFS over [r, set]: entering a node that terminates a token sets its
\* bit; each edge is tried with try_push_byte in byte order, and a successful
\* descent is undone with pop_bytes(1).
RECURSIVE add_bias_node(_, _, _), add_bias_edges(_, _, _, _)
add_bias_node(v, d, node) ==
    LET entered(t) == IF t # None THEN [d EXCEPT !.set = @ \cup {t}] ELSE d
    IN add_bias_edges(v, entered(NodeToken(v, node)), node, 1)

add_bias_edges(v, d, node, byte) ==
    IF byte > MaxByte \/ d.r.panic # "none" THEN d
    ELSE IF ~HasNode(v, Append(node, byte)) THEN add_bias_edges(v, d, node, byte + 1)
    ELSE LET popped(d2) == IF d2.r.panic # "none" THEN d2
                           ELSE [d2 EXCEPT !.r = pop_bytes(d2.r, 1)]
             tried(p) ==
                 IF p.ok
                 THEN add_bias_edges(
                          v, popped(add_bias_node(v, [d EXCEPT !.r = p.r], Append(node, byte))),
                          node, byte + 1)
                 ELSE add_bias_edges(v, [d EXCEPT !.r = p.r], node, byte + 1)
         IN tried(try_push_byte(d.r, byte))

add_bias(v, r) == add_bias_node(v, [r |-> r, set |-> {}], <<>>)

SpecialBits(v, r) == {t \in TokenIds(v) : IsSpecial(v, t) /\ special_allowed(r, t)}

\* Returns [r, set, dfs]: dfs is the recognizer as the DFS left it, before
\* trie_finished.
compute_bias(v, r) ==
    LET finished(d) ==
            [r |-> IF d.r.panic # "none" THEN d.r ELSE trie_finished(d.r),
             set |-> SpecialBits(v, r) \cup d.set, dfs |-> d.r]
    IN finished(add_bias(v, r))

\* ----------------------------------------------------------- AiciRecognizer

\* Mutant of has_eos: only the first token of the batch is looked at.
has_eos_first(v, ts) == ts # <<>> /\ ts[1] = eos_token

has_eos(v, ts) == \E i \in 1..Len(ts) : ts[i] = eos_token

SeqsUpTo(S, n) == UNION {[1..k -> S] : k \in 0..n}

NoRes == [kind |-> "none", set |-> {}, pre_ptr |-> 0, pre_top |-> 0,
          post_ptr |-> 0, post_top |-> 0]

mid_process(tokens) ==
    IF has_eos(voc, tokens)
    THEN /\ ares' = [NoRes EXCEPT !.kind = "stop"]
         /\ sr' = sr
    ELSE LET r1 == append_tokens(voc, sr, tokens) IN
         IF r1.panic # "none"
         THEN /\ ares' = [NoRes EXCEPT !.kind = "panic"]
              /\ sr' = r1
         ELSE LET b == compute_bias(voc, r1) IN
              /\ sr' = b.r
              /\ ares' = [kind |-> IF b.r.panic # "none" THEN "panic" ELSE "sample",
                          set |-> b.set,
                          pre_ptr |-> r1.stack_ptr, pre_top |-> Top(r1),
                          post_ptr |-> b.dfs.stack_ptr,
                          post_top |-> IF b.dfs.stack_ptr \in 0..(StackCap - 1)
                                       THEN Top(b.dfs) ELSE None]

MidProcess ==
    /\ sr.panic = "none"
    /\ \E tokens \in SeqsUpTo(TokenIds(voc), MaxBatch) : mid_process(tokens)
    /\ UNCHANGED <<voc, matcherVars, ctrlVars, sub, ck, ex, ffi>>

NoMatcher == [tag |-> "none"]

InitRec ==
    /\ voc \in Vocabularies
    /\ \E g \in Grammars : sr = StackRecognizer_from(g)
    /\ ares = NoRes
    /\ m = NoMatcher
    /\ mres = NoMatcher
    /\ tp = Absent /\ cres = Absent /\ caps = Absent /\ sub = Absent /\ ck = Absent
    /\ ex = Absent /\ ffi = Absent

\* StackRecognizer::reset, called by the host between sequences.
Reset ==
    /\ sr.panic = "none"
    /\ sr' = reset(sr)
    /\ ares' = NoRes
    /\ UNCHANGED <<voc, matcherVars, ctrlVars, sub, ck, ex, ffi>>

NextRec == MidProcess \/ Reset

SpecRec == InitRec /\ [][NextRec]_vars

\* ------------------------------------------------- claims on the mask (C1-C3)

\* The state reached by appending the bytes bs one by one from state, or None.
RECURSIVE Run(_, _, _)
Run(g, state, bs) ==
    IF state = Poison THEN None
    ELSE IF bs = <<>> \/ state = None THEN state
    ELSE Run(g, rec_try_append(g, state, Head(bs)), Tail(bs))

\* C1: mask soundness. After a mid_process that returned sample(set), every
\* non-special token whose bit is set has all its bytes accepted, in order, from
\* the recognizer's current state.
C1_MaskSound ==
    ares.kind = "sample" =>
        \A t \in ares.set :
            ~IsSpecial(voc, t) => Run(sr.rec, Top(sr), token(voc, t)) # None

\* A mask with a multi-byte token set and another token clear.
C1_Witness ==
    /\ ares.kind = "sample"
    /\ \E t \in ares.set : ~IsSpecial(voc, t) /\ Len(token(voc, t)) >= 2
    /\ \E t \in TokenIds(voc) \ ares.set : ~IsSpecial(voc, t)
    /\ ares.pre_top # 0

\* C2: mask completeness. Every non-special token whose bit is clear has a byte
\* that is rejected when its bytes are pushed in order from the current state.
C2_MaskComplete ==
    ares.kind = "sample" =>
        \A t \in TokenIds(voc) \ ares.set :
            ~IsSpecial(voc, t) => Run(sr.rec, Top(sr), token(voc, t)) = None

\* The zero-length token and a token that is a proper prefix of a rejected token
\* are both set.
C2_Witness ==
    /\ ares.kind = "sample"
    /\ \E t \in ares.set : ~IsSpecial(voc, t) /\ token(voc, t) = <<>>
    /\ \E t \in ares.set, u \in TokenIds(voc) \ ares.set :
          /\ ~IsSpecial(voc, t) /\ ~IsSpecial(voc, u)
          /\ token(voc, t) # <<>> /\ token(voc, t) # token(voc, u)
          /\ IsPrefix(token(voc, t), token(voc, u))

\* C3: the mask computation is stack-neutral. The DFS leaves stack_ptr and the
\* top state as compute_bias found them, so the assertion of trie_finished never
\* fails, and the recognizer the step returns is the one append_tokens left.
C3_StackNeutral ==
    /\ sr.panic # "assert"
    /\ ares.kind = "sample" =>
          /\ ares.post_ptr = ares.pre_ptr /\ ares.post_top = ares.pre_top
          /\ sr.stack_ptr = ares.pre_ptr /\ Top(sr) = ares.pre_top
          /\ sr.stack_ptr = 0

\* A mask computed after appended tokens, whose DFS went at least two bytes deep.
C3_Witness ==
    /\ ares.kind = "sample"
    /\ ares.pre_top # 0
    /\ \E t \in ares.set : ~IsSpecial(voc, t) /\ Len(token(voc, t)) >= 2
    /\ StackAt(sr, 2) # rec_initial(sr.rec)

\* ------------------------------------------------- TokenParser (matcher mode)
\* The parser the facade wraps: [r, llm_tokens, stop_reason, backtrack, fresh].
\* r is the grammar recognizer, llm_tokens the committed tokens, backtrack the
\* advertised inference capability. Every operation returns
\* [kind, val, p, msg, cause, bt]: kind is "ok", "err" (an Err result) or "panic".

NewParser(g, backtrack, fresh) ==
    [r |-> StackRecognizer_from(g), llm_tokens |-> <<>>,
     stop_reason |-> "NotStopped", backtrack |-> backtrack, fresh |-> fresh]

POk(p, val) == [kind |-> "ok", val |-> val, p |-> p, msg |-> "", cause |-> "none",
                bt |-> FALSE]

PErr(p, msg, cause) == [kind |-> "err", val |-> 0, p |-> p, msg |-> msg,
                        cause |-> cause, bt |-> FALSE]

PPanic(p, msg) == [kind |-> "panic", val |-> 0, p |-> p, msg |-> msg,
                   cause |-> "panic", bt |-> FALSE]

is_fresh(p) == p.fresh

start_without_prompt(p) == [p EXCEPT !.fresh = FALSE]

TokenParser_stop_reason(p) == p.stop_reason

\* Whether EOS would be legal now: the grammar is in an accepting state.
TokenParser_is_accepting(p) == rec_special_allowed(p.r.rec, Top(p.r), eos_token)

\* Some byte can be scanned from the current state.
can_advance(p) == \E b \in Bytes : rec_try_append(p.r.rec, Top(p.r), b) # None

\* Non-mutating: do the bytes of t push? A special token asks special_allowed.
TokenParser_validate_token(p, t) ==
    IF IsSpecial(voc, t) THEN POk(p, special_allowed(p.r, t))
    ELSE LET pushed(r1) ==
                 IF r1.panic = "none" THEN POk(p, TRUE)
                 ELSE IF r1.panic = "byte" THEN POk(p, FALSE)
                 ELSE PPanic(p, r1.panic)
         IN pushed(push_bytes(p.r, token(voc, t)))

\* Append t to llm_tokens and advance the grammar by its bytes; the value is the
\* backtrack count the parser reports (bt, 0 in matcher mode). A token the
\* grammar forbids is an Err. EOS in an accepting state stops the parser.
consume_token(p, t, bt) ==
    IF p.stop_reason # "NotStopped" THEN PErr(p, "parser stopped", "stopped")
    ELSE IF IsSpecial(voc, t)
    THEN IF special_allowed(p.r, t)
         THEN POk([p EXCEPT !.llm_tokens = Append(@, t),
                            !.stop_reason = "EosTriggered"], 0)
         ELSE PErr(p, "token not allowed", "rejected")
    ELSE LET pushed(r1) ==
                 IF r1.panic = "byte" THEN PErr(p, "token not allowed", "rejected")
                 ELSE IF r1.panic # "none" THEN PPanic(p, r1.panic)
                 ELSE POk([p EXCEPT !.r = collapse(r1), !.llm_tokens = Append(@, t)], bt)
         IN pushed(push_bytes(p.r, token(voc, t)))

\* stop_reason = NoExtensionPossible if no byte and no special token is accepted.
check_stop(p) ==
    IF p.stop_reason # "NotStopped" THEN POk(p, TRUE)
    ELSE IF ~can_advance(p) /\ ~TokenParser_is_accepting(p)
    THEN POk([p EXCEPT !.stop_reason = "NoExtensionPossible"], TRUE)
    ELSE POk(p, FALSE)

\* Truncate llm_tokens by n and rewind the grammar by replaying the remaining
\* tokens from the start; the parser is no longer stopped.
TokenParser_rollback(p, n) ==
    IF n = 0 THEN POk(p, 0)
    ELSE IF n > Len(p.llm_tokens) THEN PErr(p, "rollback past the start", "range")
    ELSE LET keep == SubSeq(p.llm_tokens, 1, Len(p.llm_tokens) - n)
             replayed(r1) ==
                 IF r1.panic # "none" THEN PPanic(p, r1.panic)
                 ELSE POk([p EXCEPT !.r = r1, !.llm_tokens = keep,
                                    !.stop_reason = "NotStopped"], 0)
         IN replayed(append_tokens(voc, reset(p.r), keep))

\* The token mask of the current state (no forced-byte prefix in matcher mode).
TokenParser_compute_mask(p) ==
    LET masked(b) == IF b.r.panic # "none" THEN PPanic(p, b.r.panic) ELSE POk(p, b.set)
    IN masked(compute_bias(voc, p.r))

\* Longest prefix of ts that would be accepted, on a copy of the parser.
RECURSIVE validate_tokens_raw(_, _)
validate_tokens_raw(p, ts) ==
    IF ts = <<>> THEN POk(p, 0)
    ELSE LET counted(rest) == IF rest.kind = "panic" THEN rest ELSE POk(p, 1 + rest.val)
             consumed(c) ==
                 IF c.kind = "panic" THEN c
                 ELSE IF c.kind = "err" THEN POk(p, 0)
                 ELSE counted(validate_tokens_raw(c.p, Tail(ts)))
         IN consumed(consume_token(p, Head(ts), 0))

\* The bytes the grammar forces: while exactly one byte can be scanned and the
\* state is not accepting, that byte. budget bounds the walk.
RECURSIVE forced(_, _, _)
forced(g, state, budget) ==
    LET next == {b \in Bytes : rec_try_append(g, state, b) \notin {None, Poison}} IN
    IF budget = 0 \/ Cardinality(next) # 1 \/ rec_special_allowed(g, state, eos_token)
       \/ \E b \in Bytes : rec_try_append(g, state, b) = Poison
    THEN <<>>
    ELSE LET b == CHOOSE x \in next : TRUE IN
         <<b>> \o forced(g, rec_try_append(g, state, b), budget - 1)

TokenParser_force_bytes(p) == forced(p.r.rec, Top(p.r), MaxForce)

max_token_len(v) ==
    LET lens == {Len(token(v, t)) : t \in TokenIds(v)} IN
    CHOOSE n \in lens : \A k \in lens : k <= n

\* Some token strictly extends bs.
has_extensions(v, bs) ==
    \E t \in TokenIds(v) :
        ~IsSpecial(v, t) /\ IsPrefix(bs, token(v, t)) /\ Len(token(v, t)) > Len(bs)

\* Longest-prefix repeated match against the trie; bytes no token starts with
\* are dropped.
RECURSIVE greedy_tokenize(_, _)
greedy_tokenize(v, bs) ==
    IF bs = <<>> THEN <<>>
    ELSE LET cands == {t \in TokenIds(v) :
                          ~IsSpecial(v, t) /\ token(v, t) # <<>> /\ IsPrefix(token(v, t), bs)}
         IN IF cands = {} THEN greedy_tokenize(v, Tail(bs))
            ELSE LET t == CHOOSE x \in cands :
                              \A y \in cands : Len(token(v, y)) <= Len(token(v, x))
                 IN <<t>> \o greedy_tokenize(v, SubSeq(bs, Len(token(v, t)) + 1, Len(bs)))

\* The number of trailing tokens of ts that a longer stream could tokenize
\* differently: extended from the right while the accumulated bytes are at most
\* max_token_len long; a suffix with extensions moves the chop point.
RECURSIVE chop_point(_, _, _, _, _)
chop_point(v, ts, idx, suff, chop) ==
    IF idx >= Len(ts) THEN chop
    ELSE LET suff1 == token(v, ts[Len(ts) - idx]) \o suff IN
         IF Len(suff1) > max_token_len(v) THEN chop
         ELSE chop_point(v, ts, idx + 1, suff1,
                         IF has_extensions(v, suff1) THEN idx + 1 ELSE chop)

\* The canonical tokens of the forced bytes, minus the chopped suffix.
TokenParser_compute_ff_tokens(p) ==
    LET grm == greedy_tokenize(voc, TokenParser_force_bytes(p))
        chop == chop_point(voc, grm, 0, <<>>, 0)
    IN SubSeq(grm, 1, Len(grm) - chop)

\* ------------------------------------------------------------------ Matcher
\* MatcherState: Normal(inner) or Error(message). The Error variant holds no
\* parser.

NoParser == [none |-> TRUE]

MatcherNormal(p) == [tag |-> "Normal", err |-> "", parser |-> p]

MatcherError(e) == [tag |-> "Error", err |-> e, parser |-> NoParser]

\* Matcher::new that does not look at the inference capabilities.
Matcher_new_ignores_caps(pr) ==
    IF pr.kind = "ok"
    THEN MatcherNormal(IF is_fresh(pr.p) THEN start_without_prompt(pr.p) ELSE pr.p)
    ELSE MatcherError(pr.msg)

\* Matcher::new on a Result<TokenParser>: [kind, p, msg].
Matcher_new(pr) ==
    IF pr.kind = "ok"
    THEN IF pr.p.backtrack THEN MatcherError("backtracking not supported")
         ELSE MatcherNormal(IF is_fresh(pr.p) THEN start_without_prompt(pr.p) ELSE pr.p)
    ELSE MatcherError(pr.msg)

\* panic_utils::catch_unwind: a panic of the closure becomes an Err with the
\* panic's message; an Err of the closure stays that Err.
catch_unwind(fr) == IF fr.kind = "panic" THEN [fr EXCEPT !.kind = "err"] ELSE fr

\* What a public operation hands back, with what it did on the way:
\* invoked (the inner parser was read or written), caught (under catch_unwind),
\* panicked (the parser panicked), escaped (the panic reached the caller),
\* left (the length of the token history of the parser the closure left).
Outcome(ms, ok, val, err, invoked, caught, fr) ==
    [m |-> ms, ok |-> ok, val |-> val, err |-> err, invoked |-> invoked,
     caught |-> caught, panicked |-> invoked /\ fr.kind = "panic",
     escaped |-> invoked /\ ~caught /\ fr.kind = "panic",
     cause |-> IF invoked THEN fr.cause ELSE "error_state",
     bt |-> invoked /\ fr.bt,
     left |-> IF invoked THEN Len(fr.p.llm_tokens) ELSE 0]

\* Mutants of with_inner: only a panic moves the matcher to Error; the Error
\* branch records a new message; the closure runs without the panic catcher.
with_inner_panics_only(ms, fr) ==
    IF ms.tag = "Normal"
    THEN LET r == catch_unwind(fr) IN
         IF r.kind = "ok"
         THEN Outcome([ms EXCEPT !.parser = r.p], TRUE, r.val, "", TRUE, TRUE, fr)
         ELSE IF fr.kind = "panic"
         THEN Outcome(MatcherError(r.msg), FALSE, 0, r.msg, TRUE, TRUE, fr)
         ELSE Outcome([ms EXCEPT !.parser = r.p], FALSE, 0, r.msg, TRUE, TRUE, fr)
    ELSE Outcome(ms, FALSE, 0, ms.err, FALSE, FALSE, fr)

with_inner_rewraps(ms, fr) ==
    IF ms.tag = "Normal"
    THEN LET r == catch_unwind(fr) IN
         IF r.kind = "ok"
         THEN Outcome([ms EXCEPT !.parser = r.p], TRUE, r.val, "", TRUE, TRUE, fr)
         ELSE Outcome(MatcherError(r.msg), FALSE, 0, r.msg, TRUE, TRUE, fr)
    ELSE Outcome(MatcherError("matcher is in error state"), FALSE, 0, ms.err,
                 FALSE, FALSE, fr)

with_inner_uncaught(ms, fr) ==
    IF ms.tag = "Normal"
    THEN IF fr.kind = "ok"
         THEN Outcome([ms EXCEPT !.parser = fr.p], TRUE, fr.val, "", TRUE, FALSE, fr)
         ELSE IF fr.kind = "panic"
         THEN Outcome([ms EXCEPT !.parser = fr.p], FALSE, 0, fr.msg, TRUE, FALSE, fr)
         ELSE Outcome(MatcherError(fr.msg), FALSE, 0, fr.msg, TRUE, FALSE, fr)
    ELSE Outcome(ms, FALSE, 0, ms.err, FALSE, FALSE, fr)

\* with_inner(f): fr is the result of f on the inner parser, evaluated only in
\* the Normal branch.
with_inner(ms, fr) ==
    IF ms.tag = "Normal"
    THEN LET r == catch_unwind(fr) IN
         IF r.kind = "ok"
         THEN Outcome([ms EXCEPT !.parser = r.p], TRUE, r.val, "", TRUE, TRUE, fr)
         ELSE Outcome(MatcherError(r.msg), FALSE, 0, r.msg, TRUE, TRUE, fr)
    ELSE Outcome(ms, FALSE, 0, ms.err, FALSE, FALSE, fr)

\* The closure of consume_tokens: the i-th consume_token reports backtrack 1
\* when i = btAt. seen: some consume_token so far reported a backtrack.
RECURSIVE consume_all(_, _, _, _, _, _)
consume_all(p, ts, i, btAt, seen, ensure) ==
    IF ts = <<>>
    THEN LET c == check_stop(p) IN [c EXCEPT !.val = 0, !.bt = seen]
    ELSE LET consumed(c) ==
                 IF c.kind # "ok" THEN [c EXCEPT !.bt = seen]
                 ELSE IF ensure /\ c.val # 0
                 THEN [PErr(c.p, "unexpected backtracking", "backtrack") EXCEPT !.bt = TRUE]
                 ELSE consume_all(c.p, Tail(ts), i + 1, btAt, seen \/ c.val # 0, ensure)
         IN consumed(consume_token(p, Head(ts), IF i = btAt THEN 1 ELSE 0))

consume_tokens_no_ensure(ms, tokens, btAt) ==
    with_inner(ms, consume_all(ms.parser, tokens, 1, btAt, FALSE, FALSE))

\* consume_tokens that keeps the matcher as it was when a token fails.
consume_tokens_atomic(ms, tokens, btAt) ==
    LET o == with_inner(ms, consume_all(ms.parser, tokens, 1, btAt, FALSE, TRUE))
    IN IF o.ok THEN o ELSE [o EXCEPT !.m = ms]

consume_tokens(ms, tokens, btAt) ==
    with_inner(ms, consume_all(ms.parser, tokens, 1, btAt, FALSE, TRUE))

\* The closure of try_consume_tokens: returns at the first token that fails
\* validate_token, with the number of tokens consumed so far.
RECURSIVE try_consume_all(_, _, _, _, _)
try_consume_all(p, ts, i, btAt, n) ==
    IF ts = <<>>
    THEN LET c == check_stop(p) IN [c EXCEPT !.val = n]
    ELSE LET consumed(c) ==
                 IF c.kind # "ok" THEN c
                 ELSE IF c.val # 0
                 THEN [PErr(c.p, "unexpected backtracking", "backtrack") EXCEPT !.bt = TRUE]
                 ELSE try_consume_all(c.p, Tail(ts), i + 1, btAt, n)
             validated(v) ==
                 IF v.kind # "ok" THEN v
                 ELSE IF ~v.val THEN POk(p, i - 1)
                 ELSE consumed(consume_token(p, Head(ts), IF i = btAt THEN 1 ELSE 0))
         IN validated(TokenParser_validate_token(p, Head(ts)))

try_consume_tokens_counts_all(ms, tokens, btAt) ==
    with_inner(ms, [try_consume_all(ms.parser, tokens, 1, btAt, Len(tokens))
                       EXCEPT !.val = Len(tokens)])

try_consume_tokens(ms, tokens, btAt) ==
    with_inner(ms, try_consume_all(ms.parser, tokens, 1, btAt, Len(tokens)))

rollback_one_less(ms, num_tokens) ==
    with_inner(ms, TokenParser_rollback(ms.parser,
                                        IF num_tokens > 0 THEN num_tokens - 1 ELSE 0))

rollback(ms, num_tokens) == with_inner(ms, TokenParser_rollback(ms.parser, num_tokens))

compute_mask(ms) == with_inner(ms, TokenParser_compute_mask(ms.parser))

is_accepting(ms) ==
    with_inner(ms, POk(ms.parser, TokenParser_is_accepting(ms.parser)))

is_stopped_asks_parser(ms) ==
    ms.tag = "Normal" /\ TokenParser_stop_reason(ms.parser) # "NotStopped"

is_stopped(ms) ==
    IF ms.tag = "Normal" THEN TokenParser_stop_reason(ms.parser) # "NotStopped"
    ELSE TRUE

stop_reason(ms) ==
    IF ms.tag = "Normal" THEN TokenParser_stop_reason(ms.parser)
    ELSE "InternalError"

\* unwrap_or_else(|_| vec![])
\* Mutant of compute_ff_tokens: the tokens come back in reverse order.
compute_ff_tokens_reversed(ms) ==
    LET o == with_inner(ms, POk(ms.parser, TokenParser_compute_ff_tokens(ms.parser)))
    IN IF o.ok THEN [o EXCEPT !.val = [i \in 1..Len(o.val) |-> o.val[Len(o.val) + 1 - i]]]
       ELSE [o EXCEPT !.val = <<>>]

compute_ff_tokens(ms) ==
    LET o == with_inner(ms, POk(ms.parser, TokenParser_compute_ff_tokens(ms.parser)))
    IN IF o.ok THEN o ELSE [o EXCEPT !.val = <<>>]

compute_ff_bytes(ms) ==
    LET o == with_inner(ms, POk(ms.parser, TokenParser_force_bytes(ms.parser)))
    IN IF o.ok THEN o ELSE [o EXCEPT !.val = <<>>]

validate_tokens(ms, tokens) == with_inner(ms, validate_tokens_raw(ms.parser, tokens))

is_error(ms) == ms.tag = "Error"

\* Option<String>: the message, or NoMessage for None.
NoMessage == "<none>"

get_error(ms) == IF ms.tag = "Normal" THEN NoMessage ELSE ms.err

\* Ok(token_env) in Normal, Err(message) in Error.
tok_env(ms) == IF ms.tag = "Normal" THEN [ok |-> TRUE, err |-> ""]
               ELSE [ok |-> FALSE, err |-> ms.err]

\* ---------------------------------------------------- the matcher's actions
\* mres is the last public operation with its outcome: op, arg (the number of
\* tokens handed over, or rolled back), the state it
\* was called in (pre_tag, pre_err, pre_stopped) and the fields of Outcome.
\* tokens is the argument of try_consume_tokens (empty for the other operations).
\* obs and rt serve the round trip of consume and rollback: obs is what the
\* matcher showed before an accepted consume_tokens of one token, rt is that
\* observation handed on to the rollback(1) that follows it.

NoObs == [none |-> TRUE]

\* What compute_mask, is_accepting, compute_ff_bytes, is_stopped and stop_reason
\* return in state ms.
Observe(ms) ==
    LET returned(o) == IF o.ok THEN <<"ok", o.val>> ELSE <<"err", o.err>> IN
    [mask |-> returned(compute_mask(ms)),
     accepting |-> returned(is_accepting(ms)),
     ff_bytes |-> compute_ff_bytes(ms).val,
     stopped |-> is_stopped(ms),
     reason |-> stop_reason(ms)]

Result(op, arg, o, obs, rt) ==
    [op |-> op, arg |-> arg, pre_tag |-> m.tag, pre_err |-> m.err,
     pre_stopped |-> is_stopped(m),
     ok |-> o.ok, val |-> o.val, err |-> o.err, invoked |-> o.invoked,
     caught |-> o.caught, panicked |-> o.panicked, escaped |-> o.escaped,
     cause |-> o.cause, bt |-> o.bt, obs |-> obs, rt |-> rt, tokens |-> <<>>,
     consumed |-> 0]

\* An operation that matches on the state itself, outside with_inner.
Direct(val, reads_inner) ==
    [m |-> m, ok |-> TRUE, val |-> val, err |-> "",
     invoked |-> reads_inner /\ m.tag = "Normal", caught |-> FALSE,
     panicked |-> FALSE, escaped |-> FALSE, cause |-> "none", bt |-> FALSE]

Fits(tokens) ==
    m.tag = "Normal" => Len(m.parser.llm_tokens) + Len(tokens) <= MaxTokens

Batches == SeqsUpTo(TokenIds(voc), MaxBatch)

\* bt: the last consume_token of the call reports a backtrack.
ConsumeTokens ==
    \E tokens \in Batches, bt \in BOOLEAN :
        /\ Fits(tokens) /\ (bt => tokens # <<>>)
        /\ LET o == consume_tokens(m, tokens, IF bt THEN Len(tokens) ELSE 0)
           IN /\ m' = o.m
              /\ mres' = [Result("consume_tokens", Len(tokens), o,
                                 IF o.ok /\ Len(tokens) = 1 /\ ~is_stopped(m)
                                 THEN Observe(m) ELSE NoObs, NoObs)
                           EXCEPT !.tokens = IF m.tag = "Normal" THEN tokens ELSE <<>>,
                                  !.consumed =
                                      IF m.tag = "Normal"
                                      THEN o.left - Len(m.parser.llm_tokens)
                                      ELSE 0]
        /\ UNCHANGED <<voc, recVars, ctrlVars, sub, ck, ex, ffi>>

TryConsumeTokens ==
    \E tokens \in Batches, bt \in BOOLEAN :
        /\ Fits(tokens) /\ (bt => tokens # <<>>)
        /\ LET o == try_consume_tokens(m, tokens, IF bt THEN Len(tokens) ELSE 0) IN
           /\ m' = o.m
           /\ mres' = [Result("try_consume_tokens", Len(tokens), o, NoObs, NoObs)
                        EXCEPT !.tokens = tokens]
        /\ UNCHANGED <<voc, recVars, ctrlVars, sub, ck, ex, ffi>>

Rollback ==
    \E n \in 0..MaxRollback :
        /\ LET o == rollback(m, n) IN
           /\ m' = o.m
           /\ mres' = Result("rollback", n, o, NoObs,
                             IF n = 1 /\ mres.op = "consume_tokens" THEN mres.obs
                             ELSE NoObs)
        /\ UNCHANGED <<voc, recVars, ctrlVars, sub, ck, ex, ffi>>

ComputeMask ==
    /\ LET o == compute_mask(m) IN
       /\ m' = o.m
       /\ mres' = Result("compute_mask", 0, o, NoObs, NoObs)
    /\ UNCHANGED <<voc, recVars, ctrlVars, sub, ck, ex, ffi>>

IsAccepting ==
    /\ LET o == is_accepting(m) IN
       /\ m' = o.m
       /\ mres' = Result("is_accepting", 0, o, NoObs, NoObs)
    /\ UNCHANGED <<voc, recVars, ctrlVars, sub, ck, ex, ffi>>

ValidateTokens ==
    \E tokens \in Batches :
        /\ LET o == validate_tokens(m, tokens) IN
           /\ m' = o.m
           /\ mres' = Result("validate_tokens", Len(tokens), o, NoObs, NoObs)
        /\ UNCHANGED <<voc, recVars, ctrlVars, sub, ck, ex, ffi>>

ComputeFfTokens ==
    /\ LET o == compute_ff_tokens(m) IN
       /\ m' = o.m
       /\ mres' = Result("compute_ff_tokens", 0, o, NoObs, NoObs)
    /\ UNCHANGED <<voc, recVars, ctrlVars, sub, ck, ex, ffi>>

ComputeFfBytes ==
    /\ LET o == compute_ff_bytes(m) IN
       /\ m' = o.m
       /\ mres' = Result("compute_ff_bytes", 0, o, NoObs, NoObs)
    /\ UNCHANGED <<voc, recVars, ctrlVars, sub, ck, ex, ffi>>

IsStopped ==
    /\ mres' = Result("is_stopped", 0, Direct(is_stopped(m), TRUE), NoObs, NoObs)
    /\ UNCHANGED <<voc, recVars, ctrlVars, sub, ck, ex, ffi, m>>

StopReason ==
    /\ mres' = Result("stop_reason", 0, Direct(stop_reason(m), TRUE), NoObs, NoObs)
    /\ UNCHANGED <<voc, recVars, ctrlVars, sub, ck, ex, ffi, m>>

IsError ==
    /\ mres' = Result("is_error", 0, Direct(is_error(m), FALSE), NoObs, NoObs)
    /\ UNCHANGED <<voc, recVars, ctrlVars, sub, ck, ex, ffi, m>>

GetError ==
    /\ mres' = Result("get_error", 0, Direct(get_error(m), FALSE), NoObs, NoObs)
    /\ UNCHANGED <<voc, recVars, ctrlVars, sub, ck, ex, ffi, m>>

TokEnv ==
    /\ mres' = Result("tok_env", 0,
                      [Direct(0, TRUE) EXCEPT !.ok = tok_env(m).ok, !.err = tok_env(m).err],
                      NoObs, NoObs)
    /\ UNCHANGED <<voc, recVars, ctrlVars, sub, ck, ex, ffi, m>>

\* The Result<TokenParser> values handed to Matcher::new.
ParserResults ==
    {[kind |-> "err", p |-> NoParser, msg |-> "grammar error"]}
    \cup {[kind |-> "ok", p |-> NewParser(g, b, f), msg |-> ""] :
             g \in Grammars, b \in BOOLEAN, f \in BOOLEAN}

InitMatcher ==
    /\ voc \in MatcherVocabularies
    /\ \E pr \in ParserResults :
          /\ m = Matcher_new(pr)
          /\ mres = [op |-> "new", arg |-> pr, pre_tag |-> "none", pre_err |-> "",
                     pre_stopped |-> FALSE, ok |-> TRUE, val |-> 0, err |-> "",
                     invoked |-> FALSE, caught |-> FALSE, panicked |-> FALSE,
                     escaped |-> FALSE, cause |-> "none", bt |-> FALSE,
                     obs |-> NoObs, rt |-> NoObs, tokens |-> <<>>,
                     consumed |-> 0]
    /\ sr = NoMatcher
    /\ ares = NoRes
    /\ tp = Absent /\ cres = Absent /\ caps = Absent /\ sub = Absent /\ ck = Absent
    /\ ex = Absent /\ ffi = Absent

NextMatcher ==
    \/ ConsumeTokens \/ TryConsumeTokens \/ Rollback \/ ComputeMask
    \/ IsAccepting \/ ValidateTokens \/ ComputeFfTokens \/ ComputeFfBytes
    \/ IsStopped \/ StopReason \/ IsError \/ GetError \/ TokEnv

SpecMatcher == InitMatcher /\ [][NextMatcher]_vars

\* ---------------------------------------------- claims on the matcher (C4-C10)

GuardedOps == {"consume_tokens", "try_consume_tokens", "rollback", "compute_mask",
               "validate_tokens", "is_accepting"}

DirectReads == {"is_stopped", "stop_reason", "tok_env"}

C5_ErrorAbsorbing ==
    [][m.tag = "Error" =>
          (m'.tag = "Error" /\ m'.err = m.err /\ get_error(m') = get_error(m))]_vars

\* An operation was called on a matcher that a rejected token had moved to Error.
C5_Witness ==
    /\ mres.pre_tag = "Error" /\ mres.pre_err = "token not allowed"
    /\ mres.op = "rollback"
    /\ get_error(m) = "token not allowed"

\* C6: in Error, the operations that go through with_inner return the error
\* without invoking the parser, is_stopped() is true and stop_reason() is
\* InternalError.
C6_ErrorFailsFast ==
    /\ m.tag = "Error" => (is_stopped(m) /\ stop_reason(m) = "InternalError")
    /\ mres.pre_tag = "Error" =>
          /\ mres.op \in GuardedOps =>
                (~mres.ok /\ ~mres.invoked /\ mres.err = mres.pre_err)
          /\ mres.op = "is_stopped" => mres.val = TRUE
          /\ mres.op = "stop_reason" => mres.val = "InternalError"

\* compute_mask was called on a matcher in Error.
C6_Witness ==
    /\ mres.pre_tag = "Error" /\ mres.op = "compute_mask"
    /\ ~mres.ok /\ mres.err = "unexpected backtracking"

C8_RejectionKeepsNormal ==
    (mres.op = "consume_tokens" /\ mres.cause = "rejected") =>
        (~mres.ok /\ ~is_error(m))

\* C8 amended: a token the grammar forbids makes consume_tokens return an error
\* and moves the matcher to Error with that error's message; the parser is
\* dropped.
C8_RejectionIsFatal ==
    (mres.op = "consume_tokens" /\ mres.cause = "rejected") =>
        /\ ~mres.ok /\ mres.err = "token not allowed"
        /\ is_error(m) /\ get_error(m) = mres.err
        /\ m.parser = NoParser

\* consume_tokens was handed a forbidden token after an allowed one.
C8_Witness ==
    /\ mres.op = "consume_tokens" /\ mres.cause = "rejected"
    /\ mres.pre_tag = "Normal" /\ mres.arg = 2

\* C9: consume_tokens and try_consume_tokens return Ok only if no consume_token
\* reported a backtrack; a reported backtrack is an error and moves the matcher
\* to Error.
C9_BacktrackIsFatal ==
    (mres.op \in {"consume_tokens", "try_consume_tokens"} /\ mres.pre_tag = "Normal") =>
        /\ mres.ok => ~mres.bt
        /\ mres.bt => (~mres.ok /\ is_error(m)
                       /\ get_error(m) = "unexpected backtracking")

\* A consume_token of try_consume_tokens reported a backtrack.
C9_Witness ==
    /\ mres.op = "try_consume_tokens" /\ mres.bt
    /\ mres.pre_tag = "Normal" /\ is_error(m)

RECURSIVE After(_, _)
After(p, ts) ==
    IF ts = <<>> THEN p ELSE After(consume_token(p, Head(ts), 0).p, Tail(ts))

\* C11: an Ok try_consume_tokens(tokens) returns k with: the token history grew
\* by exactly tokens[0..k]; each of them passed validate_token in the state it
\* was consumed in; k = len(tokens) or tokens[k] fails validate_token there;
\* and k is what validate_tokens(tokens) reports from the starting state.
C11_TryConsumePrefix ==
    [][(mres'.op = "try_consume_tokens" /\ mres'.ok) =>
          LET ts == mres'.tokens
              k == mres'.val
              p == m.parser
          IN /\ k \in 0..Len(ts)
             /\ m'.tag = "Normal"
             /\ m'.parser.llm_tokens = p.llm_tokens \o SubSeq(ts, 1, k)
             /\ \A i \in 1..k :
                    TokenParser_validate_token(After(p, SubSeq(ts, 1, i - 1)), ts[i]).val = TRUE
             /\ k < Len(ts) =>
                    TokenParser_validate_token(After(p, SubSeq(ts, 1, k)), ts[k + 1]).val = FALSE
             /\ validate_tokens(m, ts).ok /\ validate_tokens(m, ts).val = k]_vars

\* try_consume_tokens consumed the first of two tokens and stopped at the second.
C11_Witness ==
    /\ mres.op = "try_consume_tokens" /\ mres.ok
    /\ Len(mres.tokens) = 2 /\ mres.val = 1
    /\ m.tag = "Normal" /\ m.parser.llm_tokens = <<mres.tokens[1]>>

\* Nothing extends the parser's state: no byte and no special token is accepted.
NoExtension(p) ==
    /\ ~can_advance(p)
    /\ \A t \in TokenIds(voc) : IsSpecial(voc, t) => ~special_allowed(p.r, t)

\* C12: after every Ok return of consume_tokens or try_consume_tokens, a state
\* that accepts no byte and no special token is stopped with
\* NoExtensionPossible.
C12_StopCheckApplied ==
    (mres.op \in {"consume_tokens", "try_consume_tokens"} /\ mres.ok
     /\ m.tag = "Normal" /\ NoExtension(m.parser)) =>
        (is_stopped(m) /\ stop_reason(m) = "NoExtensionPossible")

\* try_consume_tokens returned Ok after a proper prefix, in a state nothing
\* extends, and the matcher is not stopped.
C12_Witness ==
    /\ mres.op = "try_consume_tokens" /\ mres.ok /\ mres.val < mres.arg
    /\ m.tag = "Normal" /\ NoExtension(m.parser)
    /\ ~is_stopped(m) /\ stop_reason(m) = "NotStopped"

\* ------------------------------------------- claims on the matcher (C35-C36)

\* C35: Matcher::new(pr) gives an Error matcher exactly when pr is an Err or its
\* parser advertises backtrack, with the message of the Err or "backtracking
\* not supported"; otherwise it gives Normal holding the parser, started
\* without prompt if it was fresh. There is always an instance, and no Normal
\* matcher holds a parser with backtrack.
C35_NewErrorIffFailed ==
    /\ m.tag \in {"Normal", "Error"}
    /\ m.tag = "Normal" => ~m.parser.backtrack
    /\ mres.op = "new" =>
          LET pr == mres.arg IN
          /\ is_error(m) <=> (pr.kind = "err" \/ pr.p.backtrack)
          /\ is_error(m) =>
                get_error(m) = IF pr.kind = "err" THEN pr.msg
                               ELSE "backtracking not supported"
          /\ ~is_error(m) =>
                /\ ~is_fresh(m.parser)
                /\ m.parser = IF is_fresh(pr.p) THEN start_without_prompt(pr.p)
                               ELSE pr.p

\* Matcher::new was handed a good, fresh parser that advertises backtrack.
C35_Witness ==
    /\ mres.op = "new" /\ mres.arg.kind = "ok"
    /\ mres.arg.p.backtrack /\ is_fresh(mres.arg.p)
    /\ is_error(m) /\ get_error(m) = "backtracking not supported"

\* Every operation that goes through with_inner fails on ms.
AllFail(ms) ==
    /\ ~compute_mask(ms).ok /\ ~is_accepting(ms).ok
    /\ \A n \in 0..MaxRollback : ~rollback(ms, n).ok
    /\ \A ts \in {<<>>} \cup {<<t>> : t \in TokenIds(voc)} :
          /\ ~consume_tokens(ms, ts, 0).ok
          /\ ~try_consume_tokens(ms, ts, 0).ok
          /\ ~validate_tokens(ms, ts).ok

\* C36: a consume_tokens(tokens) on a Normal matcher that returns Ok has
\* consumed all of tokens, in order; one that fails has consumed a prefix of
\* tokens, which stays consumed in the parser it leaves behind, and moves the
\* matcher to Error, where that parser is dropped and every later operation
\* fails.
C36_AllOrError ==
    [][(mres'.op = "consume_tokens" /\ mres'.pre_tag = "Normal") =>
          LET ts == mres'.tokens
              k == mres'.consumed
              p == m.parser
          IN IF mres'.ok
             THEN /\ k = Len(ts) /\ m'.tag = "Normal"
                  /\ m'.parser.llm_tokens = p.llm_tokens \o ts
                  /\ m'.parser.r = After(p, ts).r
             ELSE LET left == consume_all(p, ts, 1, IF mres'.bt THEN Len(ts) ELSE 0,
                                          FALSE, TRUE).p
                  IN /\ k \in 0..Len(ts)
                     /\ left.llm_tokens = p.llm_tokens \o SubSeq(ts, 1, k)
                     /\ left.r = After(p, SubSeq(ts, 1, k)).r
                     /\ is_error(m') /\ get_error(m') = mres'.err
                     /\ m'.parser = NoParser
                     /\ AllFail(m')]_vars

\* consume_tokens failed at the second of two tokens, after consuming the first.
C36_Witness ==
    /\ mres.op = "consume_tokens" /\ mres.pre_tag = "Normal" /\ ~mres.ok
    /\ Len(mres.tokens) = 2 /\ mres.consumed = 1 /\ mres.cause = "rejected"
    /\ is_error(m) /\ AllFail(m)

\* ------------------------------------- TokenParser (guidance controller)
\* TokenParser { toktrie, parser, llm_tokens }. The grammar parser is
\* [r, bytes]: r is its recognizer state, bytes what get_bytes() returns (every
\* byte scanned since the start, forced ones included). dead: a panic has
\* ended the controller.

\* Longest token history of the controller.
MaxLlm == 3

VocabF == <<EosEntry, Tok(<<1>>), Tok(<<2>>), Tok(<<3>>), Tok(<<1, 2>>)>>

VocabG == <<EosEntry, Tok(<<1>>), Tok(<<2>>), Tok(<<3>>), Tok(<<2, 1>>)>>

\* A three-byte token whose last two bytes' tokens ("2", "1") have a suffix
\* ("1") that nothing extends.
VocabH == <<EosEntry, Tok(<<1>>), Tok(<<2>>), Tok(<<3>>), Tok(<<2, 1, 3>>)>>

CtrlVocabularies == {VocabD, VocabF, VocabG, VocabH}

CtrlGrammars == {"anything", "digits3", "literal", "star", "aba"}

Parser_new(g) == [r |-> StackRecognizer_from(g), bytes |-> <<>>]

\* Parser::scan: [p, accepted].
Parser_scan(p, b) ==
    LET q == try_push_byte(p.r, b) IN
    IF q.ok THEN [p |-> [r |-> collapse(q.r), bytes |-> Append(p.bytes, b)],
                  accepted |-> TRUE]
    ELSE [p |-> p, accepted |-> FALSE]

\* The loop that scans none of the bytes.
scan_all_nothing(p, bs, i) == [p |-> p, accepted |-> TRUE, at |-> 0]

scan_all_first(p, bs, i) ==
    IF i > Len(bs) THEN [p |-> p, accepted |-> TRUE, at |-> 0]
    ELSE LET q == Parser_scan(p, bs[i]) IN
         IF q.accepted THEN [p |-> q.p, accepted |-> TRUE, at |-> 0]
         ELSE [p |-> p, accepted |-> FALSE, at |-> i]

\* Scans bs in order and stops at the first rejected byte: [p, accepted, at].
RECURSIVE scan_all(_, _, _)
scan_all(p, bs, i) ==
    IF i > Len(bs) THEN [p |-> p, accepted |-> TRUE, at |-> 0]
    ELSE LET q == Parser_scan(p, bs[i]) IN
         IF q.accepted THEN scan_all(q.p, bs, i + 1)
         ELSE [p |-> p, accepted |-> FALSE, at |-> i]

\* Parser::force_bytes: scans the bytes the grammar forces.
Parser_force_bytes(p) ==
    scan_all(p, forced(p.r.rec, Top(p.r), MaxForce), 1).p

Parser_get_bytes(p) == p.bytes

tokenize_bytes(bs) == greedy_tokenize(voc, bs)

RECURSIVE decode(_, _)
decode(v, ts) == IF ts = <<>> THEN <<>> ELSE token(v, Head(ts)) \o decode(v, Tail(ts))

\* save_tokens that appends without dropping anything.
save_tokens_no_truncate(arg, acc) == acc \o arg.tokens

\* MidProcessArg::save_tokens: drop arg.backtrack tokens, append arg.tokens.
save_tokens(arg, acc) ==
    SubSeq(acc, 1, Len(acc) - arg.backtrack) \o arg.tokens

\* The loop leaving at the first suffix without extensions.
RECURSIVE chop_suffix_stops(_, _, _, _, _)
chop_suffix_stops(v, ts, idx, suff, chop) ==
    IF idx >= Len(ts) THEN chop
    ELSE LET suff1 == token(v, ts[Len(ts) - idx]) \o suff IN
         IF Len(suff1) > max_token_len(v) \/ ~has_extensions(v, suff1) THEN chop
         ELSE chop_suffix_stops(v, ts, idx + 1, suff1,
                                [chop_tokens |-> idx + 1, chop_bytes |-> Len(suff1)])

\* The loop over grm_tokens.iter().rev(): [chop_tokens, chop_bytes].
RECURSIVE chop_suffix(_, _, _, _, _)
chop_suffix(v, ts, idx, suff, chop) ==
    IF idx >= Len(ts) THEN chop
    ELSE LET suff1 == token(v, ts[Len(ts) - idx]) \o suff IN
         IF Len(suff1) > max_token_len(v) THEN chop
         ELSE chop_suffix(v, ts, idx + 1, suff1,
                          IF has_extensions(v, suff1)
                          THEN [chop_tokens |-> idx + 1, chop_bytes |-> Len(suff1)]
                          ELSE chop)

\* The last differing index instead of the first.
first_mismatch_last(llm, grm) ==
    LET diff == {i \in 0..(Len(grm) - 1) : i >= Len(llm) \/ llm[i + 1] # grm[i + 1]} IN
    IF diff = {} THEN None ELSE CHOOSE i \in diff : \A j \in diff : i >= j

first_mismatch_head(llm, grm) ==
    IF grm # <<>> /\ (llm = <<>> \/ llm[1] # grm[1]) THEN 0 ELSE None

first_mismatch_both(llm, grm) ==
    LET diff == {i \in 0..(Len(grm) - 1) : i < Len(llm) /\ llm[i + 1] # grm[i + 1]} IN
    IF diff = {} THEN None ELSE CHOOSE i \in diff : \A j \in diff : i <= j

\* The first idx (0-based) in 0..len(grm_tokens)-1 with
\* llm_tokens.get(idx) != grm_tokens.get(idx), or None.
first_mismatch(llm, grm) ==
    LET diff == {i \in 0..(Len(grm) - 1) : i >= Len(llm) \/ llm[i + 1] # grm[i + 1]} IN
    IF diff = {} THEN None ELSE CHOOSE i \in diff : \A j \in diff : i <= j

\* TokTrie::compute_bias_ext: push the prefix bytes, run the mask DFS, pop them.
compute_bias_ext(v, r, prefix) ==
    LET popped(b) ==
            IF b.r.panic # "none" THEN [r |-> b.r, set |-> b.set]
            ELSE [r |-> pop_bytes(b.r, Len(prefix)), set |-> b.set]
        pushed(r1) ==
            IF r1.panic # "none" THEN [r |-> r1, set |-> {}]
            ELSE popped(compute_bias(v, r1))
    IN pushed(push_bytes(r, prefix))

\* What a step saw on its way, kept with its result (kind, backtrack,
\* ff_tokens, set): the argument, llm_tokens after save_tokens, the grammar's
\* bytes, grm_tokens before and after the chop, the suffixes, and whether a
\* mask was computed.
NoStep ==
    [kind |-> "none", backtrack |-> 0, ff_tokens |-> <<>>, set |-> {},
     mask_computed |-> FALSE, panic |-> "none", arg |-> [backtrack |-> 0, tokens |-> <<>>],
     llm |-> <<>>, bytes_before |-> <<>>, full_grm_bytes |-> <<>>, grm_all |-> <<>>,
     chop_tokens |-> 0, chop_bytes |-> 0, grm_tokens |-> <<>>, mismatch |-> None,
     llm_suffix |-> <<>>, grm_suffix |-> <<>>, byte_suffix |-> <<>>,
     bytes_after |-> <<>>, obeyed |-> TRUE]

\* TokenParser::mid_process: [tp, res]. Each stage of the function receives
\* what the stages before it computed.
TokenParser_mid_process(t, arg) ==
    LET llm == save_tokens(arg, t.llm_tokens)
        t1 == [t EXCEPT !.llm_tokens = llm]
        seen == [NoStep EXCEPT !.arg = arg, !.llm = llm,
                               !.bytes_before = Parser_get_bytes(t.parser),
                               !.bytes_after = Parser_get_bytes(t.parser)]
        \* the mask b computed after the scan sc
        with_mask(t2, seen4, sc, b) ==
            LET t3 == [t2 EXCEPT !.parser = [sc.p EXCEPT !.r = b.r]] IN
            IF ~sc.accepted
            THEN [tp |-> [t2 EXCEPT !.dead = TRUE, !.parser = sc.p],
                  res |-> [seen4 EXCEPT !.kind = "panic", !.panic = "rejected byte"]]
            ELSE IF b.r.panic # "none"
            THEN [tp |-> [t3 EXCEPT !.dead = TRUE],
                  res |-> [seen4 EXCEPT !.kind = "panic", !.panic = "mask",
                                        !.mask_computed = TRUE]]
            ELSE [tp |-> t3,
                  res |-> [seen4 EXCEPT !.kind = "sample", !.set = b.set,
                                        !.mask_computed = TRUE]]
        \* the bytes of llm_suffix beyond grm_suffix scanned: sc
        with_scan(t2, seen3, byte_suffix, sc) ==
            with_mask(t2, [seen3 EXCEPT !.byte_suffix = byte_suffix,
                                        !.bytes_after = Parser_get_bytes(sc.p)],
                      sc, compute_bias_ext(voc, sc.p.r, byte_suffix))
        \* the two suffixes after the common tokens
        with_suffixes(t2, seen2, p1, llm_suffix, grm_suffix) ==
            LET seen3 == [seen2 EXCEPT !.llm_suffix = llm_suffix, !.grm_suffix = grm_suffix]
                died(msg) == [tp |-> [t2 EXCEPT !.dead = TRUE],
                              res |-> [seen3 EXCEPT !.kind = "panic", !.panic = msg]]
                byte_suffix == IF Len(grm_suffix) <= Len(llm_suffix) THEN <<>>
                               ELSE SubSeq(grm_suffix, Len(llm_suffix) + 1, Len(grm_suffix))
            IN
            IF Len(grm_suffix) <= Len(llm_suffix) /\ ~IsPrefix(grm_suffix, llm_suffix)
            THEN died("grm<=llm")
            ELSE IF Len(grm_suffix) > Len(llm_suffix) /\ ~IsPrefix(llm_suffix, grm_suffix)
            THEN died("grm>llm")
            ELSE with_scan(t2, seen3, byte_suffix,
                           IF Len(grm_suffix) <= Len(llm_suffix)
                           THEN scan_all(p1, SubSeq(llm_suffix, Len(grm_suffix) + 1,
                                                    Len(llm_suffix)), 1)
                           ELSE [p |-> p1, accepted |-> TRUE, at |-> 0])
        \* grm_tokens chopped: the alignment loop
        with_chop(p1, full_grm_bytes, grm_all, chop) ==
            LET grm_tokens == SubSeq(grm_all, 1, Len(grm_all) - chop.chop_tokens)
                idx == first_mismatch(llm, grm_tokens)
                t2 == [t1 EXCEPT !.parser = p1]
                seen2 == [seen EXCEPT !.full_grm_bytes = full_grm_bytes,
                                      !.grm_all = grm_all,
                                      !.chop_tokens = chop.chop_tokens,
                                      !.chop_bytes = chop.chop_bytes,
                                      !.grm_tokens = grm_tokens, !.mismatch = idx,
                                      !.bytes_after = full_grm_bytes]
            IN
            IF idx # None
            THEN [tp |-> t2,
                  res |-> [seen2 EXCEPT !.kind = "splice",
                                        !.backtrack = Len(llm) - idx,
                                        !.ff_tokens = SubSeq(grm_tokens, idx + 1,
                                                             Len(grm_tokens))]]
            ELSE with_suffixes(t2, seen2, p1,
                               decode(voc, SubSeq(llm, Len(grm_tokens) + 1, Len(llm))),
                               SubSeq(full_grm_bytes,
                                      Len(full_grm_bytes) - chop.chop_bytes + 1,
                                      Len(full_grm_bytes)))
        \* the grammar's bytes tokenized
        with_tokens(p1, full_grm_bytes, grm_all) ==
            with_chop(p1, full_grm_bytes, grm_all,
                      chop_suffix(voc, grm_all, 0, <<>>,
                                  [chop_tokens |-> 0, chop_bytes |-> 0]))
        with_bytes(p1, full_grm_bytes) ==
            with_tokens(p1, full_grm_bytes, tokenize_bytes(full_grm_bytes))
        \* the parser after force_bytes
        with_forced(p1) == with_bytes(p1, Parser_get_bytes(p1))
    IN
    IF has_eos(voc, arg.tokens)
    THEN [tp |-> t1, res |-> [seen EXCEPT !.kind = "stop"]]
    ELSE with_forced(Parser_force_bytes(t1.parser))

\* The arguments the host may hand over: after a splice, the splice applied
\* exactly; otherwise no backtrack and a batch of tokens (the prompt at the
\* start, the sampled tokens after a mask).
HostArgs ==
    IF cres.kind = "splice"
    THEN {[backtrack |-> cres.backtrack, tokens |-> cres.ff_tokens]}
    ELSE {[backtrack |-> 0, tokens |-> ts] : ts \in SeqsUpTo(TokenIds(voc), MaxBatch)}

\* The host follows the protocol when, after a sample, it hands over one token
\* of the mask.
Obeys(arg) ==
    cres.kind = "sample" => (Len(arg.tokens) = 1 /\ arg.tokens[1] \in cres.set)

\* One step of the controller on the argument the host hands over.
CtrlMidProcess ==
    /\ ~tp.dead /\ cres.kind # "stop"
    /\ \E arg \in HostArgs :
          LET returned(o) ==
                  /\ tp' = o.tp
                  /\ cres' = [o.res EXCEPT !.obeyed = cres.obeyed /\ Obeys(arg)]
          IN
          /\ Len(save_tokens(arg, tp.llm_tokens)) <= MaxLlm
          /\ returned(TokenParser_mid_process(tp, arg))
    /\ UNCHANGED <<voc, recVars, matcherVars, caps, sub, ck, ex, ffi>>

\* TokenParser::from_guidance_protobuf, on a host that declares its capabilities.
InitCtrl ==
    /\ voc \in CtrlVocabularies
    /\ \E g \in CtrlGrammars :
          tp = [parser |-> Parser_new(g), llm_tokens |-> <<>>, dead |-> FALSE]
    /\ cres = NoStep
    /\ caps \in [ff_tokens : BOOLEAN, backtrack : {TRUE}]
    /\ sr = Absent /\ ares = Absent /\ m = Absent /\ mres = Absent /\ sub = Absent
    /\ ck = Absent /\ ex = Absent /\ ffi = Absent

NextCtrl == CtrlMidProcess

SpecCtrl == InitCtrl /\ [][NextCtrl]_vars

\* ------------------------------------ claims on the controller (C13, C20)

\* C13: at the first index i where llm_tokens[i] and grm_tokens[i] differ the
\* step returns Splice(len(llm_tokens) - i, grm_tokens[i..]) and computes no
\* mask; when llm_tokens is a proper prefix of grm_tokens the step returns the
\* splice with backtrack 0 and the missing tokens.
C13_AlignmentSplice ==
    cres.kind \in {"splice", "sample", "panic"} =>
        LET llm == cres.llm
            grm == cres.grm_tokens
            differ == {i \in 1..Len(grm) : i <= Len(llm) /\ llm[i] # grm[i]}
        IN /\ differ # {} =>
                LET i == CHOOSE x \in differ : \A y \in differ : x <= y IN
                /\ cres.kind = "splice" /\ ~cres.mask_computed
                /\ cres.backtrack = Len(llm) - (i - 1)
                /\ cres.ff_tokens = SubSeq(grm, i, Len(grm))
           /\ (Len(llm) < Len(grm) /\ IsPrefix(llm, grm)) =>
                /\ cres.kind = "splice" /\ ~cres.mask_computed
                /\ cres.backtrack = 0
                /\ cres.ff_tokens = SubSeq(grm, Len(llm) + 1, Len(grm))

\* A splice that takes back two tokens of the host: they differ from the
\* canonical tokens of the grammar's bytes at the first index.
C13_Witness ==
    /\ cres.kind = "splice" /\ cres.backtrack = 2 /\ Len(cres.llm) = 2
    /\ cres.ff_tokens # <<>> /\ cres.llm[1] # cres.grm_tokens[1]

\* C20: on a host that declares ff_tokens = false, no step returns more than
\* one fast-forward token.
C20_OneFfTokenPerStep ==
    (caps.ff_tokens = FALSE /\ cres.kind = "splice") => Len(cres.ff_tokens) <= 1

\* The first step on a host without fast-forward returns the three forced
\* tokens of the literal in one splice.
C20_Witness ==
    /\ caps.ff_tokens = FALSE
    /\ cres.kind = "splice" /\ cres.backtrack = 0 /\ cres.llm = <<>>
    /\ Len(cres.ff_tokens) = 3 /\ decode(voc, cres.ff_tokens) = <<1, 2, 3>>

\* C21: a step whose batch contains EOS returns stop without computing a
\* mask, and leaves the grammar parser (its recognizer and the bytes it has
\* scanned) as it was: no token of the batch is pushed, the tokens before EOS
\* included. The batch is only recorded in llm_tokens.
C21_EosStep ==
    [][(\E i \in 1..Len(cres'.arg.tokens) : cres'.arg.tokens[i] = eos_token) =>
          /\ cres'.kind = "stop"
          /\ ~cres'.mask_computed /\ cres'.set = {}
          /\ tp'.parser = tp.parser
          /\ tp'.llm_tokens = save_tokens(cres'.arg, tp.llm_tokens)]_vars

\* A batch of a grammar token followed by EOS ended the sequence after the
\* grammar had scanned bytes in an earlier step.
C21_Witness ==
    /\ cres.kind = "stop"
    /\ Len(cres.arg.tokens) = 2
    /\ cres.arg.tokens[1] # eos_token /\ cres.arg.tokens[2] = eos_token
    /\ cres.bytes_before # <<>> /\ cres.bytes_after = cres.bytes_before

\* ------------------------------------ claims on the controller (C26-C28)

\* The bytes of the last j tokens of the grammar's tokens in the last step.
SuffixBytes(j) ==
    decode(voc, SubSeq(cres.grm_all, Len(cres.grm_all) - j + 1, Len(cres.grm_all)))

\* The suffix of j tokens could be tokenized differently by a longer stream.
Choppable(j) ==
    Len(SuffixBytes(j)) <= max_token_len(voc) /\ has_extensions(voc, SuffixBytes(j))

\* The step got as far as the boundary chop.
Chopped == cres.kind \notin {"none", "stop"}

\* C26 (as stated): the chopped suffix is extended one token at a time from
\* the right while its bytes are at most max_token_len long and have
\* extensions, and extension stops at the first suffix that fails either
\* condition; chop_bytes is the byte length of the chopped tokens and
\* chop_tokens <= len(grm_tokens).
C26_StopsAtFirstFailure ==
    Chopped =>
        /\ cres.chop_tokens <= Len(cres.grm_all)
        /\ cres.chop_bytes = Len(SuffixBytes(cres.chop_tokens))
        /\ \A j \in 1..cres.chop_tokens : Choppable(j)
        /\ cres.chop_tokens < Len(cres.grm_all) => ~Choppable(cres.chop_tokens + 1)

\* C26 (amended): the walk from the right goes on while the accumulated bytes
\* are at most max_token_len long, also past suffixes without extensions; the
\* chop point is the longest suffix walked that has extensions (none: nothing
\* is chopped); chop_bytes is the byte length of the chopped tokens and
\* chop_tokens <= len(grm_tokens).
C26_BoundaryChop ==
    Chopped =>
        /\ cres.chop_tokens <= Len(cres.grm_all)
        /\ cres.chop_bytes = Len(SuffixBytes(cres.chop_tokens))
        /\ cres.chop_tokens > 0 => Choppable(cres.chop_tokens)
        /\ \A j \in (cres.chop_tokens + 1)..Len(cres.grm_all) : ~Choppable(j)
        /\ cres.grm_tokens = SubSeq(cres.grm_all, 1, Len(cres.grm_all) - cres.chop_tokens)

\* Two tokens are chopped although the last one alone has no extension.
C26_Witness ==
    /\ Chopped /\ cres.chop_tokens = 2 /\ cres.chop_bytes = 2
    /\ ~Choppable(1) /\ Choppable(2)
    /\ cres.obeyed /\ cres.kind = "sample"

\* The step got past the alignment loop without a splice.
Aligned == cres.kind \in {"sample", "panic"}

\* C27: whenever mid_process gets past the alignment loop without returning a
\* splice, the chopped grm_tokens is a prefix of llm_tokens, so
\* len(grm_tokens) <= len(llm_tokens) and llm_tokens[len(grm_tokens)..] is in
\* range.
C27_GrmPrefixOfLlm ==
    Aligned =>
        /\ IsPrefix(cres.grm_tokens, cres.llm)
        /\ Len(cres.grm_tokens) <= Len(cres.llm)
        /\ cres.llm_suffix =
              decode(voc, SubSeq(cres.llm, Len(cres.grm_tokens) + 1, Len(cres.llm)))

\* Two grammar tokens are left after the chop and the model is one token ahead.
C27_Witness ==
    /\ Aligned /\ Len(cres.grm_tokens) = 2 /\ Len(cres.llm) = 3
    /\ cres.chop_tokens = 1 /\ cres.obeyed

\* The grammar of the controller accepts the bytes bs from its start.
Accepted(bs) == Run(tp.parser.r.rec, rec_initial(tp.parser.r.rec), bs) # None

\* The bytes of llm_suffix after the first n.
Beyond(n) == SubSeq(cres.llm_suffix, n + 1, Len(cres.llm_suffix))

\* The step went on to the mask (which is returned unless computing it panics).
MaskStage == cres.kind = "sample" \/ cres.panic = "mask"

\* The step died before the mask with the message msg.
Fatal(msg) == cres.kind = "panic" /\ cres.panic = msg /\ ~cres.mask_computed /\ cres.set = {}

\* C28: if grm_suffix is not longer than llm_suffix then llm_suffix starts
\* with grm_suffix, the remaining bytes of llm_suffix are scanned into the
\* grammar in order and byte_suffix is empty; otherwise grm_suffix starts with
\* llm_suffix and byte_suffix = grm_suffix[len(llm_suffix)..]; any other
\* relation between the two suffixes, or a rejected scanned byte, is fatal and
\* no mask is returned.
C28_SuffixReconciliation ==
    Aligned =>
        /\ cres.grm_suffix = SubSeq(cres.full_grm_bytes,
                                    Len(cres.full_grm_bytes) - cres.chop_bytes + 1,
                                    Len(cres.full_grm_bytes))
        /\ IF Len(cres.grm_suffix) <= Len(cres.llm_suffix)
           THEN IF ~IsPrefix(cres.grm_suffix, cres.llm_suffix) THEN Fatal("grm<=llm")
                ELSE IF ~Accepted(cres.full_grm_bytes \o Beyond(Len(cres.grm_suffix)))
                THEN Fatal("rejected byte")
                ELSE /\ MaskStage /\ cres.byte_suffix = <<>>
                     /\ cres.bytes_after =
                           cres.full_grm_bytes \o Beyond(Len(cres.grm_suffix))
           ELSE IF ~IsPrefix(cres.llm_suffix, cres.grm_suffix) THEN Fatal("grm>llm")
                ELSE /\ MaskStage /\ cres.bytes_after = cres.full_grm_bytes
                     /\ cres.byte_suffix =
                           SubSeq(cres.grm_suffix, Len(cres.llm_suffix) + 1,
                                  Len(cres.grm_suffix))

\* The model's suffix goes two bytes beyond a non-empty grm_suffix: both are
\* scanned and the mask is returned.
C28_Witness ==
    /\ cres.kind = "sample" /\ cres.grm_suffix # <<>>
    /\ Len(cres.llm_suffix) = Len(cres.grm_suffix) + 2
    /\ cres.bytes_after = cres.full_grm_bytes \o Beyond(Len(cres.grm_suffix))

\* ------------------------------------ claims on the controller (C37-C39)

\* C37: at a step that returns sample(mask), and at one that goes on to the
\* mask at all, the bytes of llm_tokens followed by byte_suffix are the bytes
\* the grammar parser has accepted after the scans of the step.
C37_HistoryAgrees ==
    MaskStage =>
        /\ decode(voc, cres.llm) \o cres.byte_suffix = cres.bytes_after
        /\ cres.bytes_after = Parser_get_bytes(tp.parser)
        /\ cres.llm = tp.llm_tokens

\* A mask returned after the model went one token beyond the grammar's
\* tokens, in a step that scanned that token's bytes.
C37_Witness ==
    /\ cres.kind = "sample" /\ cres.obeyed
    /\ Len(cres.llm) = Len(cres.grm_tokens) + 1 /\ cres.grm_tokens # <<>>
    /\ cres.bytes_after # cres.full_grm_bytes
    /\ decode(voc, cres.llm) = Parser_get_bytes(tp.parser)

\* llm_tokens after the host has dropped backtrack tokens and appended ff.
Spliced(llm, backtrack, ff) == SubSeq(llm, 1, Len(llm) - backtrack) \o ff

\* C38: for every splice, 0 <= backtrack <= len(llm_tokens); llm_tokens cut by
\* backtrack and followed by ff_tokens is the chopped grm_tokens; and the bytes
\* of grm_tokens are a prefix of the grammar's bytes.
C38_SpliceYieldsGrm ==
    cres.kind = "splice" =>
        /\ cres.backtrack \in 0..Len(cres.llm)
        /\ Spliced(cres.llm, cres.backtrack, cres.ff_tokens) = cres.grm_tokens
        /\ IsPrefix(decode(voc, cres.grm_tokens), cres.full_grm_bytes)
        /\ cres.full_grm_bytes = Parser_get_bytes(tp.parser)

\* A splice that takes back one of two tokens and puts two in its place.
C38_Witness ==
    /\ cres.kind = "splice" /\ Len(cres.llm) = 2 /\ cres.backtrack = 1
    /\ Len(cres.ff_tokens) = 2
    /\ Spliced(cres.llm, cres.backtrack, cres.ff_tokens) = cres.grm_tokens

MaxCont == 3

FfGrammars == {"literal", "aba", "star", "digits3"}

InitFf ==
    /\ voc \in CtrlVocabularies
    /\ \E g \in FfGrammars :
          m = Matcher_new([kind |-> "ok", p |-> NewParser(g, FALSE, TRUE), msg |-> ""])
    /\ mres = [op |-> "new", arg |-> 0, pre_tag |-> "none", pre_err |-> "",
               pre_stopped |-> FALSE, ok |-> TRUE, val |-> 0, err |-> "",
               invoked |-> FALSE, caught |-> FALSE, panicked |-> FALSE,
               escaped |-> FALSE, cause |-> "none", bt |-> FALSE,
               obs |-> NoObs, rt |-> NoObs, tokens |-> <<>>,
                     consumed |-> 0]
    /\ sr = NoMatcher
    /\ ares = NoRes
    /\ tp = Absent /\ cres = Absent /\ caps = Absent /\ sub = Absent /\ ck = Absent
    /\ ex = Absent /\ ffi = Absent

NextFf == ConsumeTokens \/ ComputeFfTokens \/ ComputeFfBytes

SpecFf == InitFf /\ [][NextFf]_vars

\* The tokens ts, decoded and scanned from the parser's state, end in an
\* accepting state.
LeadsToAcceptance(p, ts) ==
    LET end == Run(p.r.rec, Top(p.r), decode(voc, ts)) IN
    end # None /\ rec_special_allowed(p.r.rec, end, eos_token)

MaxChunks == 4

ChunkAlphabet == {<<1>>, <<2>>, <<1, 2>>}

NoNext == [c \in {} |-> 0]

\* HashMap::insert.
Insert(f, k, v) == [x \in DOMAIN f \cup {k} |-> IF x = k THEN v ELSE f[x]]

\* Vec::push on a function over 0..n-1.
Push(states, st) ==
    LET n == Cardinality(DOMAIN states) IN
    [i \in 0..n |-> IF i < n THEN states[i] ELSE st]

NumStates(a) == Cardinality(DOMAIN a.states)

SuffixAutomaton_new ==
    [states |-> [i \in {0} |-> [len |-> 0, link |-> None, next |-> NoNext]],
     last |-> 0, panic |-> FALSE]

\* The first loop of extend: walk the links from p, adding the transition on s
\* to cur_index, until a state that has one. Returns [states, p].
RECURSIVE add_transitions(_, _, _, _)
add_transitions(states, p, s, cur_index) ==
    IF p = None \/ s \in DOMAIN states[p].next THEN [states |-> states, p |-> p]
    ELSE add_transitions([states EXCEPT ![p].next = Insert(@, s, cur_index)],
                         states[p].link, s, cur_index)

\* The second loop of extend: redirect to the clone the transitions on s that
\* lead to q. Indexing next with a missing key panics. Returns [states, panic].
RECURSIVE redirect(_, _, _, _, _)
redirect(states, p, s, q, clone_index) ==
    IF p = None THEN [states |-> states, panic |-> FALSE]
    ELSE IF s \notin DOMAIN states[p].next THEN [states |-> states, panic |-> TRUE]
    ELSE IF states[p].next[s] = q
    THEN redirect([states EXCEPT ![p].next = Insert(@, s, clone_index)],
                  states[p].link, s, q, clone_index)
    ELSE [states |-> states, panic |-> FALSE]

extend_no_clone(a, s) ==
    LET cur_index == NumStates(a)
        st1 == Push(a.states, [len |-> a.states[a.last].len + 1, link |-> None,
                               next |-> NoNext])
        w == add_transitions(st1, a.last, s, cur_index)
    IN [a EXCEPT !.last = cur_index,
                 !.states = [w.states EXCEPT ![cur_index].link =
                                IF w.p = None THEN 0 ELSE w.states[w.p].next[s]]]

extend_no_walk(a, s) ==
    LET cur_index == NumStates(a)
        st1 == Push(a.states, [len |-> a.states[a.last].len + 1, link |-> 0,
                               next |-> NoNext])
    IN [a EXCEPT !.last = cur_index,
                 !.states = [st1 EXCEPT ![a.last].next = Insert(@, s, cur_index)]]

\* extend that clones q whenever the walk stops at a state with a transition
\* on s, also when len(p) + 1 = len(q).
extend_always_clone(a, s) ==
    LET cur_index == NumStates(a)
        st1 == Push(a.states, [len |-> a.states[a.last].len + 1, link |-> None,
                               next |-> NoNext])
        w == add_transitions(st1, a.last, s, cur_index)
    IN IF w.p = None
       THEN [a EXCEPT !.states = [w.states EXCEPT ![cur_index].link = 0],
                      !.last = cur_index]
       ELSE LET q == w.states[w.p].next[s]
                clone_index == Cardinality(DOMAIN w.states)
                st2 == Push(w.states, [len |-> w.states[w.p].len + 1,
                                       link |-> w.states[q].link,
                                       next |-> w.states[q].next])
                rd == redirect(st2, w.p, s, q, clone_index)
            IN [a EXCEPT !.states = [rd.states EXCEPT ![q].link = clone_index,
                                                       ![cur_index].link = clone_index],
                         !.last = cur_index,
                         !.panic = rd.panic]

\* extend whose clone links to q instead of taking over the link of q.
extend_clone_links_q(a, s) ==
    LET cur_index == NumStates(a)
        st1 == Push(a.states, [len |-> a.states[a.last].len + 1, link |-> None,
                               next |-> NoNext])
        w == add_transitions(st1, a.last, s, cur_index)
    IN IF w.p = None
       THEN [a EXCEPT !.states = [w.states EXCEPT ![cur_index].link = 0],
                      !.last = cur_index]
       ELSE LET q == w.states[w.p].next[s] IN
            IF w.states[w.p].len + 1 = w.states[q].len
            THEN [a EXCEPT !.states = [w.states EXCEPT ![cur_index].link = q],
                           !.last = cur_index]
            ELSE LET clone_index == Cardinality(DOMAIN w.states)
                     st2 == Push(w.states, [len |-> w.states[w.p].len + 1,
                                            link |-> q,
                                            next |-> w.states[q].next])
                     rd == redirect(st2, w.p, s, q, clone_index)
                 IN [a EXCEPT !.states = [rd.states EXCEPT ![cur_index].link = clone_index],
                              !.last = cur_index,
                              !.panic = rd.panic]

\* SuffixAutomaton::extend.
extend(a, s) ==
    LET cur_index == NumStates(a)
        st1 == Push(a.states, [len |-> a.states[a.last].len + 1, link |-> None,
                               next |-> NoNext])
        w == add_transitions(st1, a.last, s, cur_index)
    IN IF w.p = None
       THEN [a EXCEPT !.states = [w.states EXCEPT ![cur_index].link = 0],
                      !.last = cur_index]
       ELSE LET q == w.states[w.p].next[s] IN
            IF w.states[w.p].len + 1 = w.states[q].len
            THEN [a EXCEPT !.states = [w.states EXCEPT ![cur_index].link = q],
                           !.last = cur_index]
            ELSE LET clone_index == Cardinality(DOMAIN w.states)
                     st2 == Push(w.states, [len |-> w.states[w.p].len + 1,
                                            link |-> w.states[q].link,
                                            next |-> w.states[q].next])
                     rd == redirect(st2, w.p, s, q, clone_index)
                 IN [a EXCEPT !.states = [rd.states EXCEPT ![q].link = clone_index,
                                                            ![cur_index].link = clone_index],
                              !.last = cur_index,
                              !.panic = rd.panic]

\* ------------------------------------------------------ the regex builder
\* Regex nodes of RegexBuilder: [op, s, args] with op "lit" (the string s),
\* "cat" or "or" (over the sequence args).

literal(s) == [op |-> "lit", s |-> s, args |-> <<>>]

concat(args) == [op |-> "cat", s |-> <<>>, args |-> args]

or(args) == [op |-> "or", s |-> <<>>, args |-> args]

\* Whether the regex matches the whole of s.
RECURSIVE Matches(_, _)
Matches(re, s) ==
    CASE re.op = "lit" -> s = re.s
      [] re.op = "or" -> \E i \in 1..Len(re.args) : Matches(re.args[i], s)
      [] OTHER ->
            IF re.args = <<>> THEN s = <<>>
            ELSE \E k \in 0..Len(s) :
                    /\ Matches(Head(re.args), SubSeq(s, 1, k))
                    /\ Matches(concat(Tail(re.args)), SubSeq(s, k + 1, Len(s)))

\* The elements of a set in one order (a HashMap iterates in some order).
RECURSIVE InOrder(_)
InOrder(S) ==
    IF S = {} THEN <<>>
    ELSE LET x == CHOOSE y \in S : TRUE IN <<x>> \o InOrder(S \ {x})

\* The orders in which a set can be iterated.
Orders(S) ==
    {q \in [1..Cardinality(S) -> S] : \A i, j \in 1..Cardinality(S) : q[i] = q[j] => i = j}

\* --------------------------------------------------------------- substring
\* sub is [chunks, fed, sa, phase, state_stack, node_cache, result]:
\* from_string has fed the first `fed` chunks to extend; then the worklist loop
\* runs over state_stack and node_cache until the stack is empty.

\* SuffixAutomaton::from_string, one chunk.
FromStringStep ==
    /\ sub.phase = "build" /\ sub.fed < Len(sub.chunks) /\ ~sub.sa.panic
    /\ sub' = [sub EXCEPT !.sa = extend(sub.sa, sub.chunks[sub.fed + 1]),
                          !.fed = @ + 1]
    /\ UNCHANGED <<voc, recVars, matcherVars, ctrlVars, ck, ex, ffi>>

\* substring() after from_string: the stack starts with state 0.
StartWorklist ==
    /\ sub.phase = "build" /\ sub.fed = Len(sub.chunks) /\ ~sub.sa.panic
    /\ sub' = [sub EXCEPT !.phase = "regex", !.state_stack = <<0>>]
    /\ UNCHANGED <<voc, recVars, matcherVars, ctrlVars, ck, ex, ffi>>

\* ------------------------------------------- termination of substring (C34)

\* A worklist iteration that finds the state on top of the stack cached and
\* leaves it there.
WorklistStep_keeps_cached ==
    /\ sub.phase = "regex" /\ sub.state_stack # <<>>
    /\ LET state_index == sub.state_stack[Len(sub.state_stack)]
           state == sub.sa.states[state_index]
           popped == SubSeq(sub.state_stack, 1, Len(sub.state_stack) - 1)
           cached == DOMAIN sub.node_cache
           unprocessed_children ==
               {state.next[c] : c \in DOMAIN state.next} \ cached
           options == [i \in 1..Cardinality(DOMAIN state.next) |->
                          LET c == InOrder(DOMAIN state.next)[i] IN
                          concat(<<literal(c), sub.node_cache[state.next[c]]>>)]
       IN IF state_index \in cached
          THEN sub' = sub
          ELSE IF DOMAIN state.next = {}
          THEN sub' = [sub EXCEPT !.node_cache = Insert(@, state_index, literal(<<>>)),
                                  !.state_stack = popped]
          ELSE IF unprocessed_children # {}
          THEN \E order \in Orders(unprocessed_children) :
                  sub' = [sub EXCEPT !.state_stack = @ \o order]
          ELSE sub' = [sub EXCEPT !.node_cache =
                                      Insert(@, state_index,
                                             or(Append(options, literal(<<>>)))),
                                  !.state_stack = popped]
    /\ UNCHANGED <<voc, recVars, matcherVars, ctrlVars, ck, ex, ffi>>

\* One iteration of `while let Some(state_index) = state_stack.last()`.
WorklistStep ==
    /\ sub.phase = "regex" /\ sub.state_stack # <<>>
    /\ LET state_index == sub.state_stack[Len(sub.state_stack)]
           state == sub.sa.states[state_index]
           popped == SubSeq(sub.state_stack, 1, Len(sub.state_stack) - 1)
           cached == DOMAIN sub.node_cache
           unprocessed_children ==
               {state.next[c] : c \in DOMAIN state.next} \ cached
           options == [i \in 1..Cardinality(DOMAIN state.next) |->
                          LET c == InOrder(DOMAIN state.next)[i] IN
                          concat(<<literal(c), sub.node_cache[state.next[c]]>>)]
       IN IF state_index \in cached
          THEN sub' = [sub EXCEPT !.state_stack = popped]
          ELSE IF DOMAIN state.next = {}
          THEN sub' = [sub EXCEPT !.node_cache = Insert(@, state_index, literal(<<>>)),
                                  !.state_stack = popped]
          ELSE IF unprocessed_children # {}
          THEN \E order \in Orders(unprocessed_children) :
                  sub' = [sub EXCEPT !.state_stack = @ \o order]
          ELSE sub' = [sub EXCEPT !.node_cache =
                                      Insert(@, state_index,
                                             or(Append(options, literal(<<>>)))),
                                  !.state_stack = popped]
    /\ UNCHANGED <<voc, recVars, matcherVars, ctrlVars, ck, ex, ffi>>

\* Ok(node_cache[&0])
ReturnRegex ==
    /\ sub.phase = "regex" /\ sub.state_stack = <<>>
    /\ sub' = [sub EXCEPT !.phase = "done", !.result = sub.node_cache[0]]
    /\ UNCHANGED <<voc, recVars, matcherVars, ctrlVars, ck, ex, ffi>>

InitSub ==
    /\ \E chunks \in SeqsUpTo(ChunkAlphabet, MaxChunks) :
          sub = [chunks |-> chunks, fed |-> 0, sa |-> SuffixAutomaton_new,
                 phase |-> "build", state_stack |-> <<>>, node_cache |-> NoNext,
                 result |-> literal(<<>>)]
    /\ voc = <<>>
    /\ sr = Absent /\ ares = Absent /\ m = Absent /\ mres = Absent
    /\ tp = Absent /\ cres = Absent /\ caps = Absent /\ ck = Absent /\ ex = Absent /\ ffi = Absent

NextSub == FromStringStep \/ StartWorklist \/ WorklistStep \/ ReturnRegex

SpecSub == InitSub /\ [][NextSub]_vars

\* ------------------------------------- claims on the substring regex (C14-C15)

RECURSIVE Flatten(_)
Flatten(chunks) == IF chunks = <<>> THEN <<>> ELSE Head(chunks) \o Flatten(Tail(chunks))

\* The concatenations of the contiguous ranges of chunks, the empty range included.
RangeTexts(chunks) ==
    {<<>>} \cup {Flatten(SubSeq(chunks, i, j)) : i \in 1..Len(chunks), j \in 1..Len(chunks)}

\* The strings over the bytes of the chunks, up to one byte longer than the
\* whole text.
Candidates(chunks) ==
    SeqsUpTo(UNION {{c[i] : i \in 1..Len(c)} : c \in ChunkAlphabet},
             Len(Flatten(chunks)) + 1)

\* C14: the regex returned by substring() matches the concatenation of every
\* contiguous range of chunks, the empty range and the full sequence included.
C14_SubstringComplete ==
    sub.phase = "done" =>
        \A t \in RangeTexts(sub.chunks) : Matches(sub.result, t)

\* The regex of a sequence of three chunks, two of them equal, matches the
\* whole text.
C14_Witness ==
    /\ sub.phase = "done" /\ Len(sub.chunks) = 3 /\ sub.chunks[2] = sub.chunks[3]
    /\ sub.chunks[1] # sub.chunks[2]
    /\ Matches(sub.result, Flatten(sub.chunks))

\* C15: the regex returned by substring() matches no string but the
\* concatenations of contiguous ranges of chunks: a byte substring of the text
\* that starts or ends inside a chunk, or skips a chunk, is rejected.
C15_SubstringSound ==
    sub.phase = "done" =>
        \A t \in Candidates(sub.chunks) :
            Matches(sub.result, t) => t \in RangeTexts(sub.chunks)

\* The text 12 1 2 (three chunks): its byte substring 2 1 starts inside the
\* first chunk and is rejected.
C15_Witness ==
    /\ sub.phase = "done" /\ sub.chunks = <<<<1, 2>>, <<1>>, <<2>>>>
    /\ ~Matches(sub.result, <<2, 1>>)
    /\ Matches(sub.result, <<1, 2, 1>>)

\* ------------------------------------ claims on the automaton (C32 and C33)

\* C32 as stated: after extend has been fed n chunks (one at least) the
\* automaton has at most 2*n - 1 states.
C32_StateBound ==
    sub.fed >= 1 => NumStates(sub.sa) <= 2 * sub.fed - 1

\* C32: after extend has been fed n chunks the automaton has at most 2*n - 1
\* states when n >= 2, and exactly n + 1 states (state 0 and one per chunk)
\* when n <= 1.
C32_StateBoundFromTwo ==
    IF sub.fed >= 2 THEN NumStates(sub.sa) <= 2 * sub.fed - 1
    ELSE NumStates(sub.sa) = sub.fed + 1

\* Four chunks a b b b: a clone at the third and at the fourth chunk, 7 states.
C32_Witness ==
    /\ sub.fed = 4 /\ sub.chunks = <<<<1>>, <<2>>, <<2>>, <<2>>>>
    /\ NumStates(sub.sa) = 2 * sub.fed - 1

\* The states met following the links from state i, at most k steps.
RECURSIVE LinkPath(_, _, _)
LinkPath(states, i, k) ==
    IF k = 0 \/ states[i].link = None THEN {i}
    ELSE {i} \cup LinkPath(states, states[i].link, k - 1)

\* C33: after every extend state 0 has no link, every other state links to a
\* state of strictly smaller len, and the links from any state lead to state 0.
C33_LinkTree ==
    LET states == sub.sa.states IN
    /\ states[0].link = None
    /\ \A i \in DOMAIN states \ {0} :
          /\ states[i].link \in DOMAIN states
          /\ states[states[i].link].len < states[i].len
          /\ 0 \in LinkPath(states, i, NumStates(sub.sa))

\* An extend that cloned: the clone is the last state, the new state and the
\* cloned state both link to it, and the clone links on towards state 0.
C33_Witness ==
    LET states == sub.sa.states
        n == NumStates(sub.sa)
    IN /\ sub.fed = 3 /\ n = 5 /\ sub.sa.last = 3
       /\ states[3].link = 4
       /\ \E q \in 1..2 : states[q].link = 4 /\ states[4].len < states[q].len
       /\ states[4].link = 0

\* ----------------------------------------------- claims on the worklist (C34)

\* substring() runs to its return: the loops of from_string and of the
\* worklist are sequential code that keeps taking its next step.
SpecSubFair == SpecSub /\ WF_vars(NextSub)

\* Every transition leads to a state of strictly greater len.
Acyclic ==
    LET states == sub.sa.states IN
    \A i \in DOMAIN states : \A c \in DOMAIN states[i].next :
        states[states[i].next[c]].len > states[i].len

\* A state has its regex cached only when all its successors have theirs.
SuccessorsFirst ==
    LET states == sub.sa.states IN
    \A i \in DOMAIN sub.node_cache : \A c \in DOMAIN states[i].next :
        states[i].next[c] \in DOMAIN sub.node_cache

\* A step that changes the cache adds the regex of the state on top of the
\* stack, which had none, and leaves every other entry as it was.
BuildsOnce ==
    sub'.node_cache # sub.node_cache =>
        LET top == sub.state_stack[Len(sub.state_stack)] IN
        /\ sub.state_stack # <<>>
        /\ top \notin DOMAIN sub.node_cache
        /\ DOMAIN sub'.node_cache = DOMAIN sub.node_cache \cup {top}
        /\ \A i \in DOMAIN sub.node_cache : sub'.node_cache[i] = sub.node_cache[i]

\* C34: substring() terminates for every chunk sequence: transitions strictly
\* increase len, a state's regex is built only after those of all its
\* successors are cached and only once, and the run ends with the regex of
\* state 0 cached and returned.
C34_Terminates ==
    /\ [](Acyclic /\ SuccessorsFirst)
    /\ [][BuildsOnce]_vars
    /\ [](sub.phase = "done" =>
            /\ sub.state_stack = <<>>
            /\ 0 \in DOMAIN sub.node_cache
            /\ sub.result = sub.node_cache[0])
    /\ <>(sub.phase = "done")

\* The run over a b b has returned: state 0 reaches the clone and the state of
\* b by two transitions each, so the worklist met a state already cached.
C34_Witness ==
    /\ sub.phase = "done" /\ sub.chunks = <<<<1>>, <<2>>, <<2>>>>
    /\ DOMAIN sub.node_cache = DOMAIN sub.sa.states
    /\ NumStates(sub.sa) = 5
    /\ sub.result = sub.node_cache[0]

\* ---------------------------------------------------------------- chunkers
\* A &str is its UTF-8 bytes (0..255). The inputs are the encodings of
\* sequences of the code points below: a, _, space, full stop, U+00E9,
\* U+3000 (ideographic space), U+BE60 (a Hangul syllable), U+1F600.

\* Longest input of a chunker, in code points.
MaxChars == 3

CodePoints == {97, 95, 32, 46, 233, 12288, 48736, 128512}

\* char::encode_utf8.
Utf8(cp) ==
    IF cp < 128 THEN <<cp>>
    ELSE IF cp < 2048 THEN <<192 + (cp \div 64), 128 + (cp % 64)>>
    ELSE IF cp < 65536
    THEN <<224 + (cp \div 4096), 128 + ((cp \div 64) % 64), 128 + (cp % 64)>>
    ELSE <<240 + (cp \div 262144), 128 + ((cp \div 4096) % 64),
           128 + ((cp \div 64) % 64), 128 + (cp % 64)>>

RECURSIVE Encode(_)
Encode(cps) == IF cps = <<>> THEN <<>> ELSE Utf8(Head(cps)) \o Encode(Tail(cps))

char_width_one(lead) == 1

\* The number of bytes of the character that starts with the byte lead.
char_width(lead) ==
    IF lead < 128 THEN 1 ELSE IF lead < 224 THEN 2 ELSE IF lead < 240 THEN 3 ELSE 4

\* The character at byte offset i (0-based) of input, as char_indices yields it.
char_at(input, i) ==
    LET w == char_width(input[i + 1])
        cont(k) == input[i + k] - 128
    IN CASE w = 1 -> input[i + 1]
         [] w = 2 -> ((input[i + 1] - 192) * 64) + cont(2)
         [] w = 3 -> ((input[i + 1] - 224) * 4096) + (cont(2) * 64) + cont(3)
         [] OTHER -> ((input[i + 1] - 240) * 262144) + (cont(2) * 4096)
                     + (cont(3) * 64) + cont(4)

is_whitespace(ch) == ch \in {32, 12288}

is_alphanumeric(ch) == ch \in {97, 233, 48736}

classify_no_underscore(ch) ==
    IF is_whitespace(ch) THEN "Whitespace"
    ELSE IF is_alphanumeric(ch) THEN "Word"
    ELSE "Other"

classify(ch) ==
    IF is_whitespace(ch) THEN "Whitespace"
    ELSE IF is_alphanumeric(ch) \/ ch = 95 THEN "Word"
    ELSE "Other"

\* &input[a..b], byte offsets.
Slice(input, a, b) == SubSeq(input, a + 1, b)

\* ck is [fn, input, it, chunks, start, current_type, done]: it is the byte
\* offset of the next character of char_indices.

\* chunk_into_chars: one iteration of the while loop.
CharsNext ==
    /\ ck.fn = "chars" /\ ~ck.done /\ ck.it < Len(ck.input)
    /\ LET start == ck.it
           next_index == ck.it + char_width(ck.input[ck.it + 1])
           end == IF next_index < Len(ck.input) THEN next_index ELSE Len(ck.input)
       IN ck' = [ck EXCEPT !.chunks = Append(@, Slice(ck.input, start, end)),
                           !.it = next_index]
    /\ UNCHANGED <<voc, recVars, matcherVars, ctrlVars, sub, ex, ffi>>

CharsReturn ==
    /\ ck.fn = "chars" /\ ~ck.done /\ ck.it >= Len(ck.input)
    /\ ck' = [ck EXCEPT !.done = TRUE]
    /\ UNCHANGED <<voc, recVars, matcherVars, ctrlVars, sub, ex, ffi>>

\* chunk_into_words up to the loop: the early return and the first class.
WordsStart ==
    /\ ck.fn = "words" /\ ~ck.done /\ ck.current_type = "unset"
    /\ ck' = IF ck.input = <<>> THEN [ck EXCEPT !.done = TRUE]
             ELSE [ck EXCEPT !.current_type = classify(char_at(ck.input, 0))]
    /\ UNCHANGED <<voc, recVars, matcherVars, ctrlVars, sub, ex, ffi>>

\* chunk_into_words: one iteration of the for loop.
WordsNext ==
    /\ ck.fn = "words" /\ ~ck.done /\ ck.current_type # "unset"
    /\ ck.it < Len(ck.input)
    /\ LET i == ck.it
           token_type == classify(char_at(ck.input, i))
           next_index == i + char_width(ck.input[i + 1])
       IN ck' = IF token_type # ck.current_type
                THEN [ck EXCEPT !.chunks = Append(@, Slice(ck.input, ck.start, i)),
                                !.start = i, !.current_type = token_type,
                                !.it = next_index]
                ELSE [ck EXCEPT !.it = next_index]
    /\ UNCHANGED <<voc, recVars, matcherVars, ctrlVars, sub, ex, ffi>>

\* chunk_into_words after the loop: the last run.
WordsReturn ==
    /\ ck.fn = "words" /\ ~ck.done /\ ck.current_type # "unset"
    /\ ck.it >= Len(ck.input)
    /\ ck' = [ck EXCEPT !.chunks = Append(@, Slice(ck.input, ck.start, Len(ck.input))),
                        !.done = TRUE]
    /\ UNCHANGED <<voc, recVars, matcherVars, ctrlVars, sub, ex, ffi>>

InitChunk ==
    /\ \E cps \in SeqsUpTo(CodePoints, MaxChars), fn \in {"chars", "words"} :
          ck = [fn |-> fn, input |-> Encode(cps), it |-> 0, chunks |-> <<>>,
                start |-> 0, current_type |-> "unset", done |-> FALSE]
    /\ voc = <<>>
    /\ sr = Absent /\ ares = Absent /\ m = Absent /\ mres = Absent
    /\ tp = Absent /\ cres = Absent /\ caps = Absent /\ sub = Absent /\ ex = Absent /\ ffi = Absent

NextChunk == CharsNext \/ CharsReturn \/ WordsStart \/ WordsNext \/ WordsReturn

SpecChunk == InitChunk /\ [][NextChunk]_vars

\* ------------------------------------------ claims on the chunkers (C16-C17)

\* The sequences of code points that encode to the bytes bs.
RECURSIVE Decodings(_)
Decodings(bs) ==
    IF bs = <<>> THEN {<<>>}
    ELSE UNION {{<<cp>> \o rest :
                    rest \in Decodings(SubSeq(bs, Len(Utf8(cp)) + 1, Len(bs)))} :
                cp \in {c \in CodePoints : IsPrefix(Utf8(c), bs)}}

\* The class of a code point: whitespace, alphanumeric or underscore, other.
Class(cp) ==
    CASE cp \in {32, 12288} -> "Whitespace"
      [] cp \in {97, 95, 233, 48736} -> "Word"
      [] OTHER -> "Other"

\* The classes of the code points of a chunk.
Classes(chunk) ==
    UNION {{Class(cps[i]) : i \in 1..Len(cps)} : cps \in Decodings(chunk)}

\* C16: the chunks of chunk_into_chars concatenate to the input byte for byte,
\* each chunk is exactly one code point, and there are as many chunks as code
\* points (none for the empty input).
C16_CharsChunks ==
    (ck.fn = "chars" /\ ck.done) =>
        /\ Flatten(ck.chunks) = ck.input
        /\ \A i \in 1..Len(ck.chunks) : \E cp \in CodePoints : ck.chunks[i] = Utf8(cp)
        /\ \E cps \in Decodings(ck.input) : Len(ck.chunks) = Len(cps)
        /\ ck.input = <<>> => ck.chunks = <<>>

\* Three chunks of one, three and four bytes.
C16_Witness ==
    /\ ck.fn = "chars" /\ ck.done /\ Len(ck.chunks) = 3
    /\ Len(ck.chunks[1]) = 1 /\ Len(ck.chunks[2]) = 3 /\ Len(ck.chunks[3]) = 4

\* C17: the chunks of chunk_into_words concatenate to the input; every chunk
\* is non-empty and its code points have one class; adjacent chunks have
\* different classes; the empty input gives no chunks.
C17_WordsChunks ==
    (ck.fn = "words" /\ ck.done) =>
        /\ Flatten(ck.chunks) = ck.input
        /\ \A i \in 1..Len(ck.chunks) :
              ck.chunks[i] # <<>> /\ Cardinality(Classes(ck.chunks[i])) = 1
        /\ \A i \in 1..(Len(ck.chunks) - 1) :
              Classes(ck.chunks[i]) # Classes(ck.chunks[i + 1])
        /\ ck.input = <<>> => ck.chunks = <<>>

\* The input a _ U+3000: a word of two code points, then whitespace.
C17_Witness ==
    /\ ck.fn = "words" /\ ck.done
    /\ ck.chunks = <<<<97, 95>>, <<227, 128, 128>>>>

(***************************************************************************)
(* LLExecutor::unsafe_compute_mask_ptr (python_ext/src/llmatcher.rs): the  *)
(* masks of several matchers computed by a thread pool into one buffer.    *)
(* ex.ms are the LLMatcher objects the host holds, each [inner, vocab_size] *)
(* with inner a Matcher and vocab_size the size of its tokenizer; ex.mem   *)
(* is the memory at and after the buffer's address, one entry per 32-bit   *)
(* word, keyed by byte address. A word holds the set of token ids whose    *)
(* bit is set. While the pool runs, ex.w[idx + 1] is worker idx: its       *)
(* position pc, the mask r it computed and the number k of words it wrote. *)
(* ex.pre, ex.writes and ex.touched record the matchers at the call, the   *)
(* <<idx, address>> pairs written and the <<idx, matcher>> pairs accessed. *)
(***************************************************************************)

\* Number of LLMatcher objects the host holds (and longest list it passes).
MaxMatchers == 2

\* The buffer addresses a host passes: null, 4-byte aligned, misaligned.
ExecPtrs == {0, 8, 10}

\* The one_mask_bytes values a host passes.
MaskBytes == {4, 8}

\* The byte addresses of the words of memory from the aligned buffer on.
MemWords == {8 + 4 * k : k \in 0..(2 * MaxMatchers - 1)}

\* Content of a word the call has not written.
Untouched == {0}

FreshBuffer == [a \in MemWords |-> Untouched]

ExecOk == "ok"

\* Vocabulary size of a second tokenizer, whose masks take two words.
OtherVocabSize == 33

\* The LLMatcher objects: a fresh matcher of a grammar, a matcher whose next
\* mask computation panics, a matcher in the Error state, and a matcher (in
\* the Error state) of the second tokenizer.
ExecMatchers ==
    {[inner |-> Matcher_new([kind |-> "ok", p |-> NewParser("digits3", FALSE, FALSE),
                             msg |-> ""]),
      vocab_size |-> Len(VocabD)]}
    \cup {[inner |-> consume_tokens(
                       Matcher_new([kind |-> "ok", p |-> NewParser("trap", FALSE, FALSE),
                                    msg |-> ""]), <<2>>, 0).m,
           vocab_size |-> Len(VocabD)]}
    \cup {[inner |-> MatcherError("grammar error"), vocab_size |-> n] :
             n \in {Len(VocabD), OtherVocabSize}}

n_words(vocab_size) == (vocab_size + 31) \div 32

\* Mutant of validate_mask_ptr: the alignment of the pointer is not checked.
validate_mask_ptr_unaligned(lm, mask_ptr, mask_bytes) ==
    IF mask_ptr = 0 THEN "Null pointer"
    ELSE IF mask_bytes # n_words(lm.vocab_size) * 4 THEN "Invalid buffer size"
    ELSE ExecOk

validate_mask_ptr(lm, mask_ptr, mask_bytes) ==
    IF mask_ptr = 0 THEN "Null pointer"
    ELSE IF mask_ptr % 4 # 0 THEN "Pointer not aligned"
    ELSE IF mask_bytes # n_words(lm.vocab_size) * 4 THEN "Invalid buffer size"
    ELSE ExecOk

\* compute_mask_or_eos that hands back the empty set when compute_mask fails.
compute_mask_or_empty(lm) ==
    LET unwrap_or_else(o) ==
            [lm |-> [lm EXCEPT !.inner = o.m], r |-> IF o.ok THEN o.val ELSE {}]
    IN unwrap_or_else(compute_mask(lm.inner))

\* The mask of the matcher, or the set holding only EOS when compute_mask
\* fails; the matcher may move to the Error state on the way.
compute_mask_or_eos(lm) ==
    LET unwrap_or_else(o) ==
            [lm |-> [lm EXCEPT !.inner = o.m], r |-> IF o.ok THEN o.val ELSE {eos_token}]
    IN unwrap_or_else(compute_mask(lm.inner))

\* SimpleVob::as_slice: word k holds the bits of the 32 token ids from 32 k
\* on (token ids are 1-based here).
as_slice(r, vocab_size) ==
    [k \in 0..(n_words(vocab_size) - 1) |-> {t \in r : (t - 1) \div 32 = k}]

\* Mutant of slice_ptr: every worker is handed the start of the buffer.
slice_ptr_shared(trg_ptr, idx, one_mask_bytes) == trg_ptr

\* The address handed to worker idx.
slice_ptr(trg_ptr, idx, one_mask_bytes) == trg_ptr + idx * one_mask_bytes

\* Mutant of extract: an object already borrowed is borrowed again.
extract_unchecked(mut_refs, ent) == ExecOk

\* ent.extract::<PyRefMut<LLMatcher>>(): the exclusive borrow of a Python
\* object fails while an earlier borrow of the same object is alive.
extract(mut_refs, ent) ==
    IF \E i \in 1..Len(mut_refs) : mut_refs[i] = ent THEN "Already borrowed" ELSE ExecOk

\* The loop before the pool starts: borrow and validate every entry, stop at
\* the first failure. Returns [err, mut_refs].
RECURSIVE borrow_and_validate(_, _, _, _, _, _)
borrow_and_validate(ms, interpreters, i, trg_ptr, one_mask_bytes, mut_refs) ==
    IF i > Len(interpreters) THEN [err |-> ExecOk, mut_refs |-> mut_refs]
    ELSE LET ent == interpreters[i]
             e == extract(mut_refs, ent)
             v == validate_mask_ptr(ms[ent], trg_ptr, one_mask_bytes)
         IN
         IF e # ExecOk THEN [err |-> e, mut_refs |-> <<>>]
         ELSE IF v # ExecOk THEN [err |-> v, mut_refs |-> <<>>]
         ELSE borrow_and_validate(ms, interpreters, i + 1, trg_ptr, one_mask_bytes,
                                  Append(mut_refs, ent))

\* copy_from_slice of the first trg_bytes / 4 words of src to trg_ptr.
copy_words(mem, trg_ptr, trg_bytes, src) ==
    [a \in DOMAIN mem |->
        IF \E k \in 0..(trg_bytes \div 4 - 1) : a = trg_ptr + 4 * k
        THEN src[(a - trg_ptr) \div 4] ELSE mem[a]]

\* unsafe_compute_mask_ptr_inner run by one thread: [lm, mem].
unsafe_compute_mask_ptr_inner(lm, mem, trg_ptr, trg_bytes) ==
    LET copy(c) ==
            [lm |-> c.lm,
             mem |-> copy_words(mem, trg_ptr, trg_bytes, as_slice(c.r, lm.vocab_size))]
    IN copy(compute_mask_or_eos(lm))

\* bytemuck::cast_slice of the words of a mask to bytes (little-endian): byte j
\* holds the bits of the 8 token ids from 8 j on.
cast_slice(r, vocab_size) ==
    [j \in 0..(4 * n_words(vocab_size) - 1) |-> {t \in r : (t - 1) \div 8 = j}]

\* LLMatcher::compute_bitmask: [lm, out].
compute_bitmask(lm) ==
    LET bytes(c) == [lm |-> c.lm, out |-> cast_slice(c.r, lm.vocab_size)]
    IN bytes(compute_mask_or_eos(lm))

\* LLMatcher::compute_logit_bias: one byte per token, 200 where the bit is set.
compute_logit_bias(lm) ==
    LET bias(c) == [lm |-> c.lm,
                    out |-> [i \in 1..lm.vocab_size |-> IF i \in c.r THEN 200 ELSE 0]]
    IN bias(compute_mask_or_eos(lm))

\* LLMatcher::validate_tokens: the count of the matcher, or, when it fails, 1
\* for a leading EOS and 0 otherwise.
LLMatcher_validate_tokens(lm, tokens) ==
    LET unwrap_or_else(o) ==
            [lm |-> [lm EXCEPT !.inner = o.m],
             out |-> IF o.ok THEN o.val
                     ELSE IF tokens # <<>> /\ tokens[1] = eos_token THEN 1 ELSE 0]
    IN unwrap_or_else(validate_tokens(lm.inner, tokens))

\* No method of an LLMatcher was called since the last call of the executor.
NoPy == [fn |-> "none", ent |-> 0, tokens |-> <<>>, out |-> 0]

NoWorkers == <<>>

\* The executor between two calls.
Idle(e) == [e EXCEPT !.phase = "idle", !.w = NoWorkers]

\* A call starts: the arguments are recorded, the host's buffer is fresh.
Started(e, interpreters, trg_ptr, one_mask_bytes) ==
    [e EXCEPT !.interpreters = interpreters, !.trg_ptr = trg_ptr,
              !.one_mask_bytes = one_mask_bytes, !.mem = FreshBuffer,
              !.mut_refs = <<>>, !.w = NoWorkers, !.pre = e.ms, !.writes = {},
              !.touched = {}, !.result = "none", !.py = NoPy]

\* The call up to its return or to the start of the pool.
LLExecutor_unsafe_compute_mask_ptr(e0, interpreters, trg_ptr, one_mask_bytes) ==
    LET e == Started(e0, interpreters, trg_ptr, one_mask_bytes) IN
    IF Len(interpreters) = 0 THEN [e EXCEPT !.result = "No interpreters"]
    ELSE IF Len(interpreters) = 1
    THEN LET ent == interpreters[1]
             v == validate_mask_ptr(e.ms[ent], trg_ptr, one_mask_bytes)
             computed(o) ==
                 [e EXCEPT !.ms[ent] = o.lm, !.mem = o.mem, !.result = ExecOk,
                           !.mut_refs = <<ent>>,
                           !.touched = {<<0, ent>>},
                           !.writes = {<<0, trg_ptr + 4 * k>> :
                                          k \in 0..(one_mask_bytes \div 4 - 1)}]
         IN
         IF v # ExecOk THEN [e EXCEPT !.result = v]
         ELSE computed(unsafe_compute_mask_ptr_inner(e.ms[ent], e.mem, trg_ptr,
                                                     one_mask_bytes))
    ELSE LET b == borrow_and_validate(e.ms, interpreters, 1, trg_ptr, one_mask_bytes, <<>>)
         IN
         IF b.err # ExecOk THEN [e EXCEPT !.result = b.err]
         ELSE [e EXCEPT !.phase = "par", !.mut_refs = b.mut_refs,
                        !.w = [i \in 1..Len(b.mut_refs) |->
                                  [pc |-> "compute", r |-> {}, k |-> 0]]]

\* The host calls the executor with a list of its matchers.
ExecCall ==
    /\ ex.phase = "idle"
    /\ \E interpreters \in SeqsUpTo(1..MaxMatchers, MaxMatchers), trg_ptr \in ExecPtrs,
          one_mask_bytes \in MaskBytes :
          ex' = LLExecutor_unsafe_compute_mask_ptr(ex, interpreters, trg_ptr,
                                                   one_mask_bytes)
    /\ UNCHANGED <<voc, recVars, matcherVars, ctrlVars, sub, ck, ffi>>

\* Worker idx computes the mask of the matcher it was handed.
WorkerCompute ==
    /\ ex.phase = "par"
    /\ \E idx \in 0..(Len(ex.w) - 1) :
          /\ ex.w[idx + 1].pc = "compute"
          /\ LET ent == ex.mut_refs[idx + 1]
                 computed(c) ==
                     [ex EXCEPT !.ms[ent] = c.lm,
                                !.w[idx + 1] = [pc |-> "write", r |-> c.r, k |-> 0],
                                !.touched = @ \cup {<<idx, ent>>}]
             IN ex' = computed(compute_mask_or_eos(ex.ms[ent]))
    /\ UNCHANGED <<voc, recVars, matcherVars, ctrlVars, sub, ck, ffi>>

\* Worker idx copies the next word of its mask to the address it was handed.
WorkerWrite ==
    /\ ex.phase = "par"
    /\ \E idx \in 0..(Len(ex.w) - 1) :
          /\ ex.w[idx + 1].pc = "write"
          /\ LET me == ex.w[idx + 1]
                 ent == ex.mut_refs[idx + 1]
                 src == as_slice(me.r, ex.ms[ent].vocab_size)
                 a == slice_ptr(ex.trg_ptr, idx, ex.one_mask_bytes) + 4 * me.k
                 last == me.k + 1 = ex.one_mask_bytes \div 4
             IN ex' = [ex EXCEPT !.mem[a] = src[me.k],
                                 !.writes = @ \cup {<<idx, a>>},
                                 !.w[idx + 1] = [me EXCEPT !.k = me.k + 1,
                                                  !.pc = IF last THEN "done" ELSE "write"]]
    /\ UNCHANGED <<voc, recVars, matcherVars, ctrlVars, sub, ck, ffi>>

\* Every worker is done: the pool returns and the call returns Ok.
ExecJoin ==
    /\ ex.phase = "par"
    /\ \A i \in 1..Len(ex.w) : ex.w[i].pc = "done"
    /\ ex' = [Idle(ex) EXCEPT !.result = ExecOk]
    /\ UNCHANGED <<voc, recVars, matcherVars, ctrlVars, sub, ck, ffi>>

PyMethods == {"compute_bitmask", "compute_logit_bias", "validate_tokens"}

\* The token lists handed to validate_tokens: empty, with EOS first, with EOS
\* after a token, without EOS.
PyTokenLists == {<<>>, <<eos_token>>, <<2>>, <<eos_token, 2>>, <<2, eos_token>>, <<2, 3>>}

\* The host calls a method of one of its matchers; ex.py records the method,
\* the matcher, the tokens handed over and what came back.
PyCall ==
    /\ ex.phase = "idle"
    /\ \E ent \in 1..MaxMatchers, fn \in PyMethods,
          tokens \in PyTokenLists :
          LET returned(o) ==
                  ex' = [Started(ex, <<>>, 0, 0) EXCEPT
                            !.ms[ent] = o.lm,
                            !.py = [fn |-> fn, ent |-> ent, tokens |-> tokens,
                                    out |-> o.out]]
          IN /\ fn # "validate_tokens" => tokens = <<>>
             /\ returned(CASE fn = "compute_bitmask" -> compute_bitmask(ex.ms[ent])
                           [] fn = "compute_logit_bias" -> compute_logit_bias(ex.ms[ent])
                           [] OTHER -> LLMatcher_validate_tokens(ex.ms[ent], tokens))
    /\ UNCHANGED <<voc, recVars, matcherVars, ctrlVars, sub, ck, ffi>>

InitExec ==
    /\ voc = VocabD
    /\ \E ms \in [1..MaxMatchers -> ExecMatchers] :
          ex = [ms |-> ms, phase |-> "idle", interpreters |-> <<>>, trg_ptr |-> 0,
                one_mask_bytes |-> 0, mem |-> FreshBuffer, mut_refs |-> <<>>,
                w |-> NoWorkers, pre |-> ms, writes |-> {}, touched |-> {},
                result |-> "none", py |-> NoPy]
    /\ sr = Absent /\ ares = Absent /\ m = Absent /\ mres = Absent
    /\ tp = Absent /\ cres = Absent /\ caps = Absent /\ sub = Absent /\ ck = Absent
    /\ ffi = Absent

NextExec == ExecCall \/ WorkerCompute \/ WorkerWrite \/ ExecJoin \/ PyCall

SpecExec == InitExec /\ [][NextExec]_vars

(***************************************************************************)
(* Claims about the parallel mask computation.                             *)
(***************************************************************************)

\* Computing the masks of the listed matchers one after another, in list
\* order, every mask at its own offset: [ms, mem].
RECURSIVE Sequential(_, _, _, _, _, _)
Sequential(ms, mem, interpreters, idx, trg_ptr, one_mask_bytes) ==
    IF idx >= Len(interpreters) THEN [ms |-> ms, mem |-> mem]
    ELSE LET ent == interpreters[idx + 1]
             o == unsafe_compute_mask_ptr_inner(ms[ent], mem,
                                                trg_ptr + idx * one_mask_bytes,
                                                one_mask_bytes)
         IN Sequential([ms EXCEPT ![ent] = o.lm], o.mem, interpreters, idx + 1,
                       trg_ptr, one_mask_bytes)

\* C18: with two or more matchers in the list, worker idx accesses only the
\* matcher at position idx of the list, no matcher is accessed by two
\* workers, worker idx writes only words of the slice
\* [trg_ptr + idx * one_mask_bytes, trg_ptr + (idx + 1) * one_mask_bytes), and
\* when the call has returned the buffer and the matchers are those of the
\* sequential computation, whatever the interleaving of the workers was.
C18_ParallelMasks ==
    LET lo(idx) == ex.trg_ptr + idx * ex.one_mask_bytes
        seq == Sequential(ex.pre, FreshBuffer, ex.interpreters, 0, ex.trg_ptr,
                          ex.one_mask_bytes)
    IN
    (Len(ex.interpreters) >= 2 /\ (ex.phase = "par" \/ ex.result = ExecOk)) =>
        /\ \A p \in ex.touched :
              /\ p[2] = ex.interpreters[p[1] + 1]
              /\ \A q \in ex.touched : q[2] = p[2] => q[1] = p[1]
        /\ \A p \in ex.writes : lo(p[1]) <= p[2] /\ p[2] < lo(p[1] + 1)
        /\ ex.result = ExecOk => ex.ms = seq.ms /\ ex.mem = seq.mem

\* Two workers have run to the end; one of them moved its matcher to the
\* Error state, and the two slices hold different masks.
C18_Witness ==
    /\ ex.phase = "idle" /\ ex.result = ExecOk
    /\ Len(ex.interpreters) = 2
    /\ ex.ms # ex.pre
    /\ ex.mem[8] # Untouched /\ ex.mem[12] # Untouched
    /\ ex.mem[8] # ex.mem[12]

CeilDiv(a, b) == IF a % b = 0 THEN a \div b ELSE a \div b + 1

\* The three preconditions for the matcher at position i of the list.
Precondition(i) ==
    /\ ex.trg_ptr # 0
    /\ (ex.trg_ptr + (i - 1) * ex.one_mask_bytes) % 4 = 0
    /\ ex.one_mask_bytes = CeilDiv(ex.ms[ex.interpreters[i]].vocab_size, 32) * 4

\* C19: once a call was made, a matcher was accessed, a mask computed or a
\* word written only if the list is not empty and the three preconditions
\* hold for every matcher in it; otherwise the call has returned an error
\* with the buffer and every matcher as they were.
C19_ValidatedUpFront ==
    LET all_hold == /\ Len(ex.interpreters) > 0
                    /\ \A i \in 1..Len(ex.interpreters) : Precondition(i)
    IN
    (ex.phase = "par" \/ ex.result # "none") =>
        /\ (\/ ex.phase = "par" \/ ex.touched # {} \/ ex.writes # {}
            \/ ex.ms # ex.pre \/ ex.mem # FreshBuffer) => all_hold
        /\ ~all_hold => /\ ex.phase = "idle"
                        /\ ex.result \notin {"none", ExecOk}
                        /\ ex.ms = ex.pre
                        /\ ex.mem = FreshBuffer

\* The first matcher of a list of two passes its checks and the second does
\* not: the call returned the error and nothing was computed or written.
C19_Witness ==
    /\ ex.result = "Invalid buffer size"
    /\ Len(ex.interpreters) = 2
    /\ Precondition(1) /\ ~Precondition(2)
    /\ ex.touched = {} /\ ex.ms = ex.pre /\ ex.mem = FreshBuffer

\* ------------------------------------------ masks of a failed matcher (C40)

\* compute_mask fails on the matcher: it is in the Error state, or its parser
\* fails or panics.
MaskFails(lm) == ~compute_mask(lm.inner).ok

\* The matcher the last method call was made on, before and after the call.
PyBefore == ex.pre[ex.py.ent]

PyAfter == ex.ms[ex.py.ent]

\* C40: when compute_mask fails on a matcher (in particular on one in the
\* Error state), compute_bitmask gives the bytes of the mask with only the EOS
\* bit, compute_logit_bias gives 200 for EOS and 0 for every other token,
\* unsafe_compute_mask_ptr (one matcher or several) writes the words of that
\* mask to the matcher's slice, and the matcher is in the Error state
\* afterwards; validate_tokens on a matcher in the Error state returns 1 when
\* the first token is EOS and 0 otherwise.
C40_ErrorMeansEosOnly ==
    /\ (ex.py.fn = "compute_bitmask" /\ MaskFails(PyBefore)) =>
          /\ ex.py.out = [j \in 0..(4 * n_words(PyBefore.vocab_size) - 1) |->
                             IF j = (eos_token - 1) \div 8 THEN {eos_token} ELSE {}]
          /\ is_error(PyAfter.inner)
    /\ (ex.py.fn = "compute_logit_bias" /\ MaskFails(PyBefore)) =>
          /\ ex.py.out = [i \in 1..PyBefore.vocab_size |->
                             IF i = eos_token THEN 200 ELSE 0]
          /\ is_error(PyAfter.inner)
    /\ (ex.py.fn = "validate_tokens" /\ is_error(PyBefore.inner)) =>
          /\ ex.py.out = IF ex.py.tokens # <<>> /\ ex.py.tokens[1] = eos_token
                         THEN 1 ELSE 0
          /\ PyAfter = PyBefore
    /\ ex.result = ExecOk =>
          \A idx \in 0..(Len(ex.interpreters) - 1) :
              LET ent == ex.interpreters[idx + 1] IN
              MaskFails(ex.pre[ent]) =>
                  /\ \A k \in 0..(n_words(ex.pre[ent].vocab_size) - 1) :
                        ex.mem[ex.trg_ptr + idx * ex.one_mask_bytes + 4 * k] =
                            IF k = (eos_token - 1) \div 32 THEN {eos_token} ELSE {}
                  /\ is_error(ex.ms[ent].inner)

\* compute_bitmask on a working matcher whose mask computation failed: the
\* bytes hold the EOS bit alone and the matcher has moved to the Error state.
C40_Witness ==
    /\ ex.py.fn = "compute_bitmask"
    /\ PyBefore.inner.tag = "Normal" /\ MaskFails(PyBefore)
    /\ is_error(PyAfter.inner)
    /\ ex.py.out[0] = {eos_token}
    /\ \A j \in DOMAIN ex.py.out \ {0} : ex.py.out[j] = {}

\* ------------------------------------------------- the C ABI: LlgConstraint

\* Longest log text a Constraint holds between two llg_flush_logs.
MaxLogs == 2

NoneOpt == [some |-> FALSE]

Some(x) == [some |-> TRUE, val |-> x]

\* The messages of the errors of a Constraint ("e", "fg").
ErrorMessages == {<<101>>, <<102, 103>>}

\* What a Constraint writes to its log buffer during one call; a log text may
\* hold a NUL.
LogChunks == {<<>>, <<108, 0>>}

\* The Constraint behind a handle: the result of its last step, the
\* temperature and the text of its log buffer. Its grammar and parser are not
\* part of the handle's contract: compute_mask and commit_token are any
\* Ok(..) or Err(..).
FreshConstraint == [step_stop |-> FALSE, temperature |-> 0, logs |-> <<>>]

StepResults ==
    {[sample_mask |-> Some(ts), stop |-> FALSE] : ts \in {{2}, {2, 3}}}
        \cup {[sample_mask |-> NoneOpt, stop |-> TRUE]}

CommitResults ==
    {[stop |-> st, backtrack |-> 0, ff_tokens |-> ff] : st \in BOOLEAN, ff \in {<<>>, <<2>>}}

CommitResult_default == [stop |-> FALSE, backtrack |-> 0, ff_tokens |-> <<>>]

Logged(c, l) == IF Len(c.logs) + Len(l) <= MaxLogs THEN [c EXCEPT !.logs = @ \o l] ELSE c

\* The outcomes of Constraint::compute_mask: Ok(r) with the constraint after
\* the step, or Err(e).
Constraint_compute_mask(c) ==
    {[ok |-> TRUE, r |-> r,
      c |-> Logged([c EXCEPT !.step_stop = r.stop, !.temperature = t], l)] :
         r \in StepResults, t \in {0, 8}, l \in LogChunks}
      \cup {[ok |-> FALSE, err |-> e] : e \in ErrorMessages}

\* The outcomes of Constraint::commit_token.
Constraint_commit_token(c, tok) ==
    {[ok |-> TRUE, r |-> r, c |-> Logged([c EXCEPT !.step_stop = r.stop], l)] :
         r \in CommitResults, l \in LogChunks}
      \cup {[ok |-> FALSE, err |-> e] : e \in ErrorMessages}

LlgConstraint_default ==
    [local_error |-> NoneOpt, last_logs |-> <<0>>, constraint |-> NoneOpt,
     last_commit_result |-> CommitResult_default]

\* Null, or the NUL-terminated message.
Null == <<>>

LlgConstraint_get_error(cc) == IF cc.local_error.some THEN cc.local_error.val ELSE Null

get_error_code_zero(cc) == 0

get_error_code(cc) == IF cc.local_error.some THEN -1 ELSE 0

set_error_keeps(cc, e) == [cc EXCEPT !.local_error = Some(e \o <<0>>)]

set_error(cc, e) == [cc EXCEPT !.constraint = NoneOpt, !.local_error = Some(e \o <<0>>)]

\* c is Ok(constraint) or Err(e).
constraint_to_llg(c) ==
    IF c.ok THEN [LlgConstraint_default EXCEPT !.constraint = Some(c.c)]
    ELSE set_error(LlgConstraint_default, c.err)

llg_get_error(cc) == LlgConstraint_get_error(cc)

llg_is_stopped(cc) == ~cc.constraint.some \/ cc.constraint.val.step_stop

\* The memory behind res_p before any call wrote it.
CallerMemory == [tag |-> "caller"]

LlgMaskResult(r, temperature) ==
    [sample_mask |-> IF r.sample_mask.some THEN r.sample_mask.val ELSE Null,
     is_stop |-> r.stop, temperature |-> temperature]

from_commit_result(r) ==
    [tokens |-> IF Len(r.ff_tokens) = 0 THEN Null ELSE r.ff_tokens,
     n_tokens |-> Len(r.ff_tokens), is_stop |-> r.stop]

\* llg_compute_mask with out the outcome of Constraint::compute_mask (only
\* looked at when there is a constraint): the handle, *res_p and the return
\* code after the call.
llg_compute_mask(cc, res_p, out) ==
    LET after == IF ~cc.constraint.some THEN [cc |-> cc, res_p |-> res_p]
                 ELSE IF out.ok
                      THEN [cc |-> [cc EXCEPT !.constraint = Some(out.c)],
                            res_p |-> LlgMaskResult(out.r, out.c.temperature)]
                      ELSE [cc |-> set_error(cc, out.err), res_p |-> res_p]
    IN  [cc |-> after.cc, res_p |-> after.res_p, ret |-> get_error_code(after.cc)]

\* llg_commit_token; tok is what the caller passed, out the outcome of
\* Constraint::commit_token.
llg_commit_token(cc, tok, res_p, out) ==
    LET after == IF ~cc.constraint.some THEN [cc |-> cc, res_p |-> res_p]
                 ELSE IF out.ok
                      THEN [cc |-> [cc EXCEPT !.constraint = Some(out.c),
                                              !.last_commit_result = out.r],
                            res_p |-> from_commit_result(out.r)]
                      ELSE [cc |-> set_error(cc, out.err), res_p |-> res_p]
    IN  [cc |-> after.cc, res_p |-> after.res_p, ret |-> get_error_code(after.cc)]

RECURSIVE replace_nul(_)
\* s.replace('\0', "\\0")
replace_nul(s) ==
    IF s = <<>> THEN <<>>
    ELSE (IF Head(s) = 0 THEN <<92, 48>> ELSE <<Head(s)>>) \o replace_nul(Tail(s))

llg_flush_logs(cc) ==
    LET after == IF cc.constraint.some
                 THEN [cc EXCEPT !.last_logs = replace_nul(cc.constraint.val.logs) \o <<0>>,
                                 !.constraint = Some([cc.constraint.val EXCEPT !.logs = <<>>])]
                 ELSE cc
    IN  [cc |-> after, ret |-> after.last_logs]

\* The call that returned last.
NoCall == [fn |-> "none", code |-> 0, msg |-> Null, stopped |-> FALSE, logs |-> Null,
           step |-> NoneOpt, res_before |-> CallerMemory,
           res_after |-> CallerMemory, failed_before |-> FALSE]

\* What the call saw of the constraint's step: Ok(r) and the temperature, or
\* Err(e); NoneOpt when no step was made.
Step(out) ==
    IF ~out.some THEN NoneOpt
    ELSE IF out.val.ok
         THEN Some([ok |-> TRUE, r |-> out.val.r, temperature |-> out.val.c.temperature])
         ELSE Some([ok |-> FALSE, err |-> out.val.err])

\* The calls made on the handle since llg_get_error first returned a message.
Since(fn) == IF ffi.err_seen.some THEN ffi.since \cup {fn} ELSE {}

LlgGetError ==
    /\ ffi # Absent
    /\ LET msg == llg_get_error(ffi.cc)
       IN  ffi' = [ffi EXCEPT
                     !.last = [NoCall EXCEPT !.fn = "llg_get_error", !.msg = msg],
                     !.since = Since("llg_get_error"),
                     !.err_seen = IF ~@.some /\ msg # Null THEN Some(msg) ELSE @]
    /\ UNCHANGED <<voc, recVars, matcherVars, ctrlVars, sub, ck, ex>>

LlgIsStopped ==
    /\ ffi # Absent
    /\ ffi' = [ffi EXCEPT
                 !.last = [NoCall EXCEPT !.fn = "llg_is_stopped",
                                         !.stopped = llg_is_stopped(ffi.cc)],
                 !.since = Since("llg_is_stopped")]
    /\ UNCHANGED <<voc, recVars, matcherVars, ctrlVars, sub, ck, ex>>

\* The outcomes of the constraint's method for a call on handle cc, NoneOpt
\* when the handle has no constraint.
Outcomes(cc, outs) == IF cc.constraint.some THEN {Some(o) : o \in outs} ELSE {NoneOpt}

LlgComputeMask ==
    /\ ffi # Absent
    /\ \E out \in Outcomes(ffi.cc, IF ffi.cc.constraint.some
                                   THEN Constraint_compute_mask(ffi.cc.constraint.val)
                                   ELSE {}) :
          LET r == llg_compute_mask(ffi.cc, ffi.mask_res,
                                    IF out.some THEN out.val ELSE NoneOpt)
          IN  ffi' = [ffi EXCEPT
                        !.cc = r.cc, !.mask_res = r.res_p,
                        !.last = [NoCall EXCEPT !.fn = "llg_compute_mask", !.code = r.ret,
                                                !.step = Step(out),
                                                !.res_before = ffi.mask_res,
                                                !.res_after = r.res_p,
                                                !.failed_before = ffi.failed],
                        !.failed = @ \/ r.ret = -1,
                        !.since = Since("llg_compute_mask")]
    /\ UNCHANGED <<voc, recVars, matcherVars, ctrlVars, sub, ck, ex>>

\* The tokens a caller passes: one of the vocabulary and one past its end.
LlgTokens == {2, Len(voc) + 1}

LlgCommitToken ==
    /\ ffi # Absent
    /\ \E tok \in LlgTokens :
       \E out \in Outcomes(ffi.cc,
                           IF ffi.cc.constraint.some
                           THEN Constraint_commit_token(
                                    ffi.cc.constraint.val,
                                    IF tok <= Len(voc) THEN Some(tok) ELSE NoneOpt)
                           ELSE {}) :
          LET r == llg_commit_token(ffi.cc, tok, ffi.commit_res,
                                    IF out.some THEN out.val ELSE NoneOpt)
          IN  ffi' = [ffi EXCEPT
                        !.cc = r.cc, !.commit_res = r.res_p,
                        !.last = [NoCall EXCEPT !.fn = "llg_commit_token", !.code = r.ret,
                                                !.step = Step(out),
                                                !.res_before = ffi.commit_res,
                                                !.res_after = r.res_p,
                                                !.failed_before = ffi.failed],
                        !.failed = @ \/ r.ret = -1,
                        !.since = Since("llg_commit_token")]
    /\ UNCHANGED <<voc, recVars, matcherVars, ctrlVars, sub, ck, ex>>

LlgFlushLogs ==
    /\ ffi # Absent
    /\ LET r == llg_flush_logs(ffi.cc)
       IN  ffi' = [ffi EXCEPT
                     !.cc = r.cc,
                     !.last = [NoCall EXCEPT !.fn = "llg_flush_logs", !.logs = r.ret],
                     !.since = Since("llg_flush_logs")]
    /\ UNCHANGED <<voc, recVars, matcherVars, ctrlVars, sub, ck, ex>>

\* A handle as llg_new_constraint* returns it: constraint_to_llg of the
\* constraint or of the error of its construction.
InitFfi ==
    /\ voc = VocabD
    /\ \E c \in {[ok |-> TRUE, c |-> FreshConstraint]}
                   \cup {[ok |-> FALSE, err |-> e] : e \in ErrorMessages} :
          ffi = [cc |-> constraint_to_llg(c), mask_res |-> CallerMemory,
                 commit_res |-> CallerMemory, last |-> NoCall, failed |-> FALSE,
                 err_seen |-> NoneOpt, since |-> {}]
    /\ sr = Absent /\ ares = Absent /\ m = Absent /\ mres = Absent
    /\ tp = Absent /\ cres = Absent /\ caps = Absent /\ sub = Absent /\ ck = Absent
    /\ ex = Absent

NextFfi == LlgGetError \/ LlgIsStopped \/ LlgComputeMask \/ LlgCommitToken \/ LlgFlushLogs

SpecFfi == InitFfi /\ [][NextFfi]_vars

\* ------------------------------------------ claims on the C ABI (C23, C24)

\* C23: once llg_get_error has returned a message for a constraint, every
\* later llg_get_error on it returns the same message, whatever
\* llg_compute_mask, llg_commit_token, llg_flush_logs or llg_is_stopped calls
\* happen in between, and from then on llg_is_stopped reports true.
C23_ErrorSticky ==
    ffi.err_seen.some =>
        /\ ffi.last.fn = "llg_get_error" => ffi.last.msg = ffi.err_seen.val
        /\ ffi.last.fn = "llg_is_stopped" => ffi.last.stopped

\* A second llg_get_error after every other call was made on a handle whose
\* error came from a step (not from its construction).
C23_Witness ==
    /\ ffi.err_seen.some /\ ffi.last.fn = "llg_get_error" /\ ffi.last.msg # Null
    /\ ffi.since = {"llg_get_error", "llg_compute_mask", "llg_commit_token",
                    "llg_flush_logs", "llg_is_stopped"}
    /\ ffi.mask_res # CallerMemory

\* C24: llg_compute_mask and llg_commit_token return 0 exactly when the
\* constraint has no recorded error after the call, and then *res_p was
\* written by this call with the step's result; otherwise they return -1; once
\* -1 has been returned every later call returns -1 and leaves *res_p
\* untouched.
C24_ReturnCodes ==
    ffi.last.fn \in {"llg_compute_mask", "llg_commit_token"} =>
        /\ ffi.last.code = 0 <=> ~ffi.cc.local_error.some
        /\ ffi.last.code = 0 =>
              /\ ffi.last.step.some /\ ffi.last.step.val.ok
              /\ ffi.last.res_after =
                    IF ffi.last.fn = "llg_compute_mask"
                    THEN LlgMaskResult(ffi.last.step.val.r, ffi.last.step.val.temperature)
                    ELSE from_commit_result(ffi.last.step.val.r)
              /\ ffi.last.res_after =
                    IF ffi.last.fn = "llg_compute_mask" THEN ffi.mask_res ELSE ffi.commit_res
        /\ ffi.last.code # 0 => ffi.last.code = -1
        /\ ffi.last.failed_before =>
              ffi.last.code = -1 /\ ffi.last.res_after = ffi.last.res_before

\* Both calls wrote their results, a later call returned -1, and the call
\* after that returned -1 with the result of the last good call still there.
C24_Witness ==
    /\ ffi.last.fn = "llg_commit_token" /\ ffi.last.failed_before /\ ffi.last.code = -1
    /\ ffi.commit_res # CallerMemory /\ ffi.mask_res # CallerMemory
    /\ ffi.commit_res.n_tokens = 1

\* -------------------------------------------- the C ABI: llg_stringify_tokens

\* Width of usize in the model; every length of the model is far below 2^UsizeBits.
UsizeBits == 16

\* Largest output_len a caller passes.
MaxOut == 8

Usize == 2 ^ UsizeBits

\* a - b on usize without overflow checks.
wrapping_sub(a, b) == (a - b + Usize) % Usize

std_cmp_min(a, b) == IF a <= b THEN a ELSE b

RECURSIVE tokens_dbg_items(_, _)
tokens_dbg_items(v, ts) ==
    IF ts = <<>> THEN <<>>
    ELSE token(v, Head(ts))
            \o (IF Len(ts) > 1 THEN <<226, 128, 167>> ELSE <<>>)
            \o tokens_dbg_items(v, Tail(ts))

\* TokTrie::tokens_dbg: the tokens' bytes between brackets, with a separator
\* (brackets and separator are three UTF-8 bytes each).
tokens_dbg(v, ts) == <<226, 159, 166>> \o tokens_dbg_items(v, ts) \o <<226, 159, 167>>

\* llg_stringify_tokens on a buffer of output_len bytes: the bytes it writes
\* from the start of output on, and what it returns. `output_len - 1` with
\* output_len = 0 panics in a build with overflow checks (the panic cannot
\* leave an extern "C" function: the process aborts) and wraps without them.
llg_stringify_tokens(v, ts, output_len, overflow_checks) ==
    LET s == tokens_dbg(v, ts)
    IN  IF output_len < 1 /\ overflow_checks
        THEN [outcome |-> "abort", written |-> <<>>, ret |-> 0]
        ELSE LET len == std_cmp_min(Len(s), wrapping_sub(output_len, 1))
             IN  [outcome |-> "returned",
                  written |-> SubSeq(s, 1, len) \o <<0>>,
                  ret |-> (Len(s) + 1) % Usize]

\* The call, on the tokens and the output_len its caller chose.
LlgStringifyTokens ==
    /\ ffi # Absent /\ ffi.fn = "none"
    /\ LET r == llg_stringify_tokens(voc, ffi.tokens, ffi.output_len, ffi.overflow_checks)
       IN  ffi' = [ffi EXCEPT !.fn = "llg_stringify_tokens", !.outcome = r.outcome,
                              !.written = r.written, !.ret = r.ret]
    /\ UNCHANGED <<voc, recVars, matcherVars, ctrlVars, sub, ck, ex>>

\* A caller about to call with any tokens of the vocabulary and any
\* output_len, in a build with or without overflow checks.
InitStr ==
    /\ voc \in CtrlVocabularies
    /\ \E ts \in SeqsUpTo(TokenIds(voc), MaxBatch), output_len \in 0..MaxOut,
          overflow_checks \in BOOLEAN :
          ffi = [fn |-> "none", tokens |-> ts, output_len |-> output_len,
                 overflow_checks |-> overflow_checks,
                 outcome |-> "none", written |-> <<>>, ret |-> 0]
    /\ sr = Absent /\ ares = Absent /\ m = Absent /\ mres = Absent
    /\ tp = Absent /\ cres = Absent /\ caps = Absent /\ sub = Absent /\ ck = Absent
    /\ ex = Absent

NextStr == LlgStringifyTokens

SpecStr == InitStr /\ [][NextStr]_vars

\* ------------------------------------------------ claims on the C ABI (C25)

\* C25: llg_stringify_tokens never writes more than output_len bytes to
\* output (the terminating NUL included) for every output_len, 0 included, and
\* returns the length of the full string plus one whether or not the output
\* was truncated.
C25_StringifyBounded ==
    ffi.fn = "llg_stringify_tokens" =>
        /\ Len(ffi.written) <= ffi.output_len
        /\ ffi.outcome = "returned"
        /\ ffi.ret = Len(tokens_dbg(voc, ffi.tokens)) + 1

\* output_len = 0 in a build without overflow checks: the whole string and
\* its NUL are written to a buffer of no bytes.
C25_Witness ==
    /\ ffi.fn = "llg_stringify_tokens" /\ ffi.output_len = 0 /\ ~ffi.overflow_checks
    /\ ffi.outcome = "returned"
    /\ Len(ffi.written) = Len(tokens_dbg(voc, ffi.tokens)) + 1
    /\ Len(ffi.tokens) = 2

\* With output_len >= 1 the call writes min(len, output_len - 1) bytes of the
\* string and a NUL, and returns the full length plus one.
C25_PositiveLen ==
    (ffi.fn = "llg_stringify_tokens" /\ ffi.output_len >= 1) =>
        LET s == tokens_dbg(voc, ffi.tokens)
        IN  /\ ffi.outcome = "returned" /\ ffi.ret = Len(s) + 1
            /\ Len(ffi.written) <= ffi.output_len
            /\ ffi.written[Len(ffi.written)] = 0
            /\ IsPrefix(SubSeq(ffi.written, 1, Len(ffi.written) - 1), s)
            /\ Len(ffi.written) = ffi.output_len \/ Len(ffi.written) = Len(s) + 1

\* ----------------------------------------- the recognizer's stack (C29, C30)
\* The Recognizer interface of StackRecognizer driven call by call, by a client
\* of its own (try_push_byte, pop_bytes, collapse) and by the trie
\* (append_tokens, compute_bias). ares keeps the last call and, in tops, the
\* states a stack is expected to hold: the state at the base, then the state
\* after each push not yet undone, computed with the recognizer's try_append.

\* Deepest stack a client builds.
MaxDepth == 3

NoStackCall ==
    [op |-> "none", ok |-> FALSE, accepted |-> FALSE, n |-> 0, pre_ptr |-> 0,
     pre_top |-> 0, rejected |-> FALSE]

Last(seq) == seq[Len(seq)]

TryPushByte ==
    /\ sr.panic = "none" /\ sr.stack_ptr < MaxDepth
    /\ \E byte \in Bytes :
          LET p == try_push_byte(sr, byte)
              state == rec_try_append(sr.rec, Last(ares.tops), byte)
          IN  /\ sr' = p.r
              /\ ares' = [NoStackCall EXCEPT
                            !.op = "try_push_byte", !.ok = p.ok,
                            !.accepted = state \notin {None, Poison},
                            !.pre_ptr = sr.stack_ptr, !.pre_top = Top(sr),
                            !.rejected = ares.rejected \/ state = None]
                         @@ [tops |-> IF state \notin {None, Poison}
                                      THEN Append(ares.tops, state) ELSE ares.tops]
    /\ UNCHANGED <<voc, matcherVars, ctrlVars, sub, ck, ex, ffi>>

\* pop_bytes(n) undoing pushes that were made.
PopBytes ==
    /\ sr.panic = "none"
    /\ \E n \in 0..sr.stack_ptr :
          /\ sr' = pop_bytes(sr, n)
          /\ ares' = [NoStackCall EXCEPT
                        !.op = "pop_bytes", !.n = n, !.pre_ptr = sr.stack_ptr,
                        !.pre_top = Top(sr), !.rejected = ares.rejected]
                     @@ [tops |-> SubSeq(ares.tops, 1, Len(ares.tops) - n)]
    /\ UNCHANGED <<voc, matcherVars, ctrlVars, sub, ck, ex, ffi>>

Collapse ==
    /\ sr.panic = "none"
    /\ sr' = collapse(sr)
    /\ ares' = [NoStackCall EXCEPT !.op = "collapse", !.pre_ptr = sr.stack_ptr,
                                   !.pre_top = Top(sr)]
               @@ [tops |-> <<Last(ares.tops)>>]
    /\ UNCHANGED <<voc, matcherVars, ctrlVars, sub, ck, ex, ffi>>

\* TokTrie::append_tokens on the recognizer, one token at a time.
AppendTokens ==
    /\ sr.panic = "none"
    /\ \E ts \in {<<t>> : t \in TokenIds(voc)} :
          /\ sr' = append_tokens(voc, sr, ts)
          /\ ares' = [NoStackCall EXCEPT !.op = "append_tokens", !.pre_ptr = sr.stack_ptr,
                                         !.pre_top = Top(sr)]
                     @@ [tops |-> <<Run(sr.rec, Last(ares.tops), decode(voc, ts))>>]
    /\ UNCHANGED <<voc, matcherVars, ctrlVars, sub, ck, ex, ffi>>

\* TokTrie::compute_bias on the recognizer.
ComputeBias ==
    /\ sr.panic = "none"
    /\ sr' = compute_bias(voc, sr).r
    /\ ares' = [NoStackCall EXCEPT !.op = "compute_bias", !.pre_ptr = sr.stack_ptr,
                                   !.pre_top = Top(sr), !.rejected = ares.rejected]
               @@ [tops |-> ares.tops]
    /\ UNCHANGED <<voc, matcherVars, ctrlVars, sub, ck, ex, ffi>>

InitStack ==
    /\ voc \in Vocabularies
    /\ \E g \in Grammars :
          /\ sr = StackRecognizer_from(g)
          /\ ares = NoStackCall @@ [tops |-> <<rec_initial(g)>>]
    /\ m = Absent /\ mres = Absent
    /\ tp = Absent /\ cres = Absent /\ caps = Absent /\ sub = Absent /\ ck = Absent
    /\ ex = Absent /\ ffi = Absent

NextStack == TryPushByte \/ PopBytes \/ Collapse \/ AppendTokens \/ ComputeBias

SpecStack == InitStack /\ [][NextStack]_vars

\* The live entries of the stack are the expected ones.
Live ==
    /\ sr.stack_ptr = Len(ares.tops) - 1
    /\ \A i \in 0..sr.stack_ptr : StackAt(sr, i) = ares.tops[i + 1]

\* C29: undo is LIFO. After k successful try_push_byte calls from a state
\* with stack_ptr = d, pop_bytes(n) with n <= k leaves stack_ptr = d + k - n
\* and on top the state that was on top after the (k - n)-th successful push;
\* a rejected try_push_byte returns false, changes neither stack_ptr nor any
\* live stack entry, and does not count as a push.
C29_UndoLifo ==
    sr.panic = "none" =>
        /\ Live
        /\ ares.op = "pop_bytes" => sr.stack_ptr = ares.pre_ptr - ares.n
        /\ ares.op = "try_push_byte" =>
              /\ ares.ok <=> ares.accepted
              /\ sr.stack_ptr = ares.pre_ptr + (IF ares.accepted THEN 1 ELSE 0)
              /\ ~ares.accepted => Top(sr) = ares.pre_top

\* Three digits pushed, a letter rejected, and two of the pushes undone.
C29_Witness ==
    /\ sr.rec = "digits3" /\ sr.panic = "none"
    /\ ares.op = "pop_bytes" /\ ares.n = 2 /\ ares.pre_ptr = 3 /\ ares.pre_top = 3
    /\ ares.rejected /\ sr.stack_ptr = 1 /\ Top(sr) = 1

\* C30: collapse() makes the current top state the new base: after it
\* stack_ptr = 0 and the top state is the one from before the call; in every
\* sequence of append_tokens and mask computations no pop_bytes takes
\* stack_ptr below this base.
C30_CollapseBase ==
    /\ (ares.op = "collapse" /\ sr.panic = "none") =>
          /\ sr.stack_ptr = 0 /\ Top(sr) = ares.pre_top
          /\ Live
    /\ ares.op \in {"append_tokens", "compute_bias"} =>
          /\ sr.panic # "underflow" /\ sr.stack_ptr >= 0
          /\ sr.panic = "none" => (sr.stack_ptr = 0 /\ Live)

\* collapse() with two digits on the stack.
C30_Witness ==
    /\ sr.rec = "digits3" /\ sr.panic = "none"
    /\ ares.op = "collapse" /\ ares.pre_ptr = 2 /\ ares.pre_top = 2
    /\ sr.stack_ptr = 0 /\ Top(sr) = 2

\* ------------------------------------------------ long tokens (C31)
\* TokTrie::append_token on vocabularies whose longest token is about as long
\* as the stack, one try_push_byte at a time: ares is the position of the
\* loop over the token's bytes.

\* A vocabulary with single bytes and one token of n bytes.
LongVocab(n) ==
    <<EosEntry, Tok(<<1>>), Tok(<<2>>), Tok(<<3>>), Tok([i \in 1..n |-> 1])>>

LongVocabularies == {LongVocab(StackCap - 1), LongVocab(StackCap)}

DeepGrammars == {"anything", "mod4"}

\* append_token is entered with token t.
DeepStart ==
    /\ sr.panic = "none" /\ ares.phase = "idle"
    /\ \E t \in {x \in TokenIds(voc) : ~IsSpecial(voc, x)} :
          ares' = [phase |-> "pushing", tok |-> t, pos |-> 0]
    /\ sr' = sr
    /\ UNCHANGED <<voc, matcherVars, ctrlVars, sub, ck, ex, ffi>>

\* push_byte of the next byte of the token: a rejected byte panics.
DeepPush ==
    /\ sr.panic = "none" /\ ares.phase = "pushing"
    /\ ares.pos < Len(token(voc, ares.tok))
    /\ LET p == try_push_byte(sr, token(voc, ares.tok)[ares.pos + 1])
       IN  sr' = IF p.ok \/ p.r.panic # "none" THEN p.r ELSE [sr EXCEPT !.panic = "byte"]
    /\ ares' = [ares EXCEPT !.pos = @ + 1]
    /\ UNCHANGED <<voc, matcherVars, ctrlVars, sub, ck, ex, ffi>>

\* All bytes pushed: collapse.
DeepCollapse ==
    /\ sr.panic = "none" /\ ares.phase = "pushing"
    /\ ares.pos = Len(token(voc, ares.tok))
    /\ sr' = collapse(sr)
    /\ ares' = [ares EXCEPT !.phase = "idle"]
    /\ UNCHANGED <<voc, matcherVars, ctrlVars, sub, ck, ex, ffi>>

InitDeep ==
    /\ voc \in LongVocabularies
    /\ \E g \in DeepGrammars : sr = StackRecognizer_from(g)
    /\ ares = [phase |-> "idle", tok |-> 0, pos |-> 0]
    /\ m = Absent /\ mres = Absent
    /\ tp = Absent /\ cres = Absent /\ caps = Absent /\ sub = Absent /\ ck = Absent
    /\ ex = Absent /\ ffi = Absent

NextDeep == DeepStart \/ DeepPush \/ DeepCollapse

SpecDeep == InitDeep /\ [][NextDeep]_vars

\* C31: the stack is pre-sized to at least max(300, max_token_len) entries,
\* so for every vocabulary try_push_byte never writes at an index >= the
\* stack length during a mask DFS or append_tokens (stack_ptr + 1 < capacity
\* at every push), and the stack is never reallocated.
C31_StackFits ==
    /\ StackCap >= max_token_len(voc)
    /\ sr.panic # "index"
    /\ sr.stack_ptr < StackCap
    /\ \A i \in DOMAIN sr.stack : i < StackCap

\* A token as long as the stack: the push of its last byte indexes the stack
\* at its length and panics; the stack was not grown.
C31_Witness ==
    /\ max_token_len(voc) = StackCap
    /\ ares.phase = "pushing" /\ ares.pos = StackCap
    /\ sr.panic = "index" /\ sr.stack_ptr = StackCap
    /\ \A i \in DOMAIN sr.stack : i < StackCap

====
